---- MODULE Spec2Model ----
(***************************************************************************)
(* A model of the follower-metrics services of ndavipt/frontend-service:   *)
(*   - analytics_service/src/api.py : get_scrape_stats, get_account_data,  *)
(*     api_growth_stats, api_trend_analysis                                *)
(*   - account_manager.py : AccountManager (submit, approve, reject,       *)
(*     remove)                                                             *)
(*   - app.py : get_profiles_from_scraper, load_previous_profile_data,     *)
(*     save_current_profile_data, get_sample_data, get_leaderboard, and    *)
(*     the handlers of /api/trends, /api/accounts, /api/submit,            *)
(*     /api/admin/approve, /api/admin/remove with their scraper calls      *)
(*   - scrape_new.py : scrape_accounts                                     *)
(* Calls that run at the same time (get_scrape_stats, submit_account, the  *)
(* request handlers) are processes with a position each, interleaved at    *)
(* the statements that read or write shared state.                         *)
(*                                                                         *)
(* Python dicts are records whose DOMAIN is the set of keys present, so    *)
(* dict.get(key, default) and "key in dict" keep their meaning.            *)
(* ISO-8601 timestamps, which the code compares as strings, are integers   *)
(* (days for history points, seconds for the stats cache); the empty       *)
(* string, which sorts before every timestamp, is 0.                       *)
(* Floating point results are exact rationals [num, den] with den > 0.     *)
(***************************************************************************)
EXTENDS Integers, Sequences, FiniteSets, TLC

VARIABLES
    \* ---- analytics_service/src/api.py : api_growth_stats ----
    scraper_profiles,   \* what GET {SCRAPER_SERVICE_URL}/profiles answers
    growth_now,         \* datetime.now() during the request, in days
    growth_pc,          \* "idle" before the request, "done" after it
    growth_response,    \* the response of /api/stats/growth
    growth_call,        \* an earlier request to /api/stats/growth and its response
    \* ---- analytics_service/src/api.py : get_scrape_stats ----
    STATS_CACHE,        \* the module-level dict: keys 'scrape_stats', 'timestamp'
    stats_now,          \* the wall clock, in seconds
    stats_file,         \* data/scrape_stats.json
    stats_call,         \* the last call of get_scrape_stats: what it saw and did
    \* ---- app.py : get_profiles_from_scraper, get_leaderboard ----
    accounts,           \* accounts.json: the tracked accounts, in file order
    latest_data,        \* data/latest_data.json
    previous_cache,     \* data/previous_profiles_cache.json
    backups,            \* the names (creation seconds) of data/profiles_backup_*
    lb_now,             \* the wall clock of the leaderboard process, in seconds
    lb_call,            \* the last call of get_profiles_from_scraper
    lb_response,        \* the last response of /api/leaderboard
    lb_seen,            \* an earlier call of get_profiles_from_scraper
    \* ---- analytics_service/src/api.py : api_trend_analysis ----
    trend_profiles,     \* what GET {SCRAPER_SERVICE_URL}/profiles answers
    trend_now,          \* datetime.now() during the request, in half days
    trend_pc,           \* "idle" before the request, "done" after it
    trend_response,     \* the response of /api/stats/trends
    \* ---- account_manager.py : AccountManager ----
    pending,            \* pending_accounts.json: the pending accounts, in file order
    reg_call,           \* the last call of the AccountManager: what it saw and did
    \* ---- requests and calls in progress, each one a record with its pc ----
    web_req,            \* app.py: the requests the web server is handling
    stats_threads,      \* api.py: the calls of get_scrape_stats under way
    scrape_run,         \* scrape_new.py: the run of scrape_accounts
    submit_calls        \* account_manager.py: the calls of submit_account under way

growthVars == <<scraper_profiles, growth_now, growth_pc, growth_response,
                growth_call>>
statsVars == <<STATS_CACHE, stats_now, stats_file, stats_call>>

lbVars == <<accounts, latest_data, previous_cache, backups, lb_now, lb_call,
            lb_response, lb_seen>>

trendVars == <<trend_profiles, trend_now, trend_pc, trend_response>>

\* accounts.json, the other file of the AccountManager, is among lbVars.
regVars == <<pending, reg_call>>

procVars == <<web_req, stats_threads, scrape_run, submit_calls>>

vars == <<growthVars, statsVars, lbVars, trendVars, regVars, procVars>>

(***************************************************************************)
(* Bounds of the model.                                                    *)
(***************************************************************************)
MaxCount == 2       \* follower counts range over 0..MaxCount
MaxHist == 2        \* history points per profile
MaxClock == 650     \* the stats clock stops advancing beyond this second
MaxRemote == 2      \* distinct statistics the scraper's /stats may answer
MaxFollowers == 1   \* follower counts of the scraper's profiles: 0..MaxFollowers
MaxProfiles == 3    \* profiles in one answer of the scraper's /profiles
MaxLbClock == 600   \* the leaderboard clock stops advancing beyond this second
MaxTrendDays == 15  \* days, up to today, on which a profile has a history point
MaxPending == 4     \* entries of pending_accounts.json

(***************************************************************************)
(* Python helpers.                                                         *)
(***************************************************************************)
\* dict.get(key, default)
Get(d, key, default) == IF key \in DOMAIN d THEN d[key] ELSE default

\* Python's None where an integer may stand (follower counts are >= 0).
None == -1

\* No response yet.
NoResponse == [status |-> 0]

\* No call yet.
NoCall == [at |-> None]

\* list(reversed(s))
Reverse(s) == [i \in DOMAIN s |-> s[Len(s) + 1 - i]]

\* str.lower() on the usernames of the model
Lower(u) ==
    CASE u = "A" -> "a" [] u = "B" -> "b" [] u = "@A" -> "@a" [] OTHER -> u

\* sorted(s, key=...) : stable; before[i, j] is "the key of s[i] sorts strictly
\* before the key of s[j]".  Element i lands after every element that sorts
\* before it and after the equal-keyed elements that precede it in the input.
StableSort(s, before) ==
    LET pos(i) == 1 + Cardinality({j \in DOMAIN s :
                        \/ before[j, i]
                        \/ (~before[i, j] /\ j < i)})
    IN  [k \in DOMAIN s |-> s[CHOOSE i \in DOMAIN s : pos(i) = k]]

\* Exact rationals standing for Python floats.
Rat(n, d) == IF d < 0 THEN [num |-> -n, den |-> -d] ELSE [num |-> n, den |-> d]
RatZero == [num |-> 0, den |-> 1]
RatEq(a, b) == a.num * b.den = b.num * a.den
RatLt(a, b) == a.num * b.den < b.num * a.den
RatSign(a) == IF a.num > 0 THEN 1 ELSE IF a.num < 0 THEN -1 ELSE 0

(***************************************************************************)
(* analytics_service/src/api.py : get_account_data                         *)
(* A remote answer is [kind, body]:                                        *)
(*   "list"   200, body a JSON list of profiles                            *)
(*   "data"   200, body a dict {'data': list}                              *)
(*   "object" 200, body another dict (a single profile)                    *)
(*   "status" a non-200 status                                             *)
(*   "error"  requests.exceptions.RequestException                         *)
(***************************************************************************)
get_account_data(answer) ==
    CASE answer.kind = "list"   -> answer.body
      [] answer.kind = "data"   -> answer.body
      [] answer.kind = "object" -> IF DOMAIN answer.body = {} THEN <<>>
                                   ELSE <<answer.body>>
      [] answer.kind = "status" -> <<>>
      [] answer.kind = "error"  -> <<>>

(***************************************************************************)
(* analytics_service/src/api.py : api_growth_stats, the body of the loop   *)
(* over the profiles (lines 219-295).  The result is the account_data      *)
(* record, plus raised = TRUE when line 276 divides by zero.               *)
(***************************************************************************)
EmptyTimestamp == 0
WeekDays == 7
MonthDays == 30

\* A sort key that orders nothing: the history stays in its input order.
TimestampBefore_Unordered(a, b) == FALSE

\* line 242: the sort key of the history
TimestampBefore(a, b) ==
    Get(a, "timestamp", EmptyTimestamp) < Get(b, "timestamp", EmptyTimestamp)

\* WindowGrowth without the cutoff filter of lines 258 and 267: the growth is
\* measured from the earliest history point, inside the window or not.
WindowGrowth_NoCutoff(sorted_history, cutoff, current_followers) ==
    IF Len(sorted_history) > 0
    THEN current_followers - Get(sorted_history[1], "followers", current_followers)
    ELSE 0

\* lines 256-263 and 265-272: current minus the first point at or after the cutoff
WindowGrowth(sorted_history, cutoff, current_followers) ==
    LET points == SelectSeq(sorted_history,
                    LAMBDA h : Get(h, "timestamp", EmptyTimestamp) >= cutoff)
    IN  IF Len(points) > 0
        THEN current_followers - Get(points[1], "followers", current_followers)
        ELSE 0

\* The rate without the division by the 7 days of the week.
GrowthRate_PerWeek(growth, followers) ==
    Rat(growth * 100, followers - growth)

\* lines 276 and 300: (growth / (followers - growth)) * (100 / 7)
GrowthRate(growth, followers) ==
    Rat(growth * 100, (followers - growth) * WeekDays)

\* line 275: the guard of the growth-rate computation
GrowthRateGuard(followers, weekly_growth) ==
    followers > 0 /\ weekly_growth # 0

\* line 234: the profile's own follower_change is used when it is not 0
UsesFollowerChange(profile) ==
    Get(profile, "follower_change", 0) # 0

\* line 240: growth is derived from the history
UsesHistory(profile) ==
    Len(Get(profile, "history", <<>>)) > 1

\* A growth record that remembers the response before: the daily growth is
\* measured from the followers reported the last time.
AccountGrowth_Remembering(profile, now) ==
    [username |-> Get(profile, "username", "None"),
     followers |-> Get(profile, "followers", 0),
     daily_growth |->
        IF growth_response.status = 200 /\ growth_response.accounts # <<>>
        THEN Get(profile, "followers", 0) - growth_response.accounts[1].followers
        ELSE 0,
     weekly_growth |-> 0, monthly_growth |-> 0, growth_rate |-> RatZero,
     follower_change |-> Get(profile, "follower_change", 0), raised |-> FALSE]

AccountGrowth(profile, now) ==
    LET username == Get(profile, "username", "None")
        followers == Get(profile, "followers", 0)
        history == Get(profile, "history", <<>>)
        follower_change == Get(profile, "follower_change", 0)
        zero == [username |-> username, followers |-> followers,
                 daily_growth |-> 0, weekly_growth |-> 0, monthly_growth |-> 0,
                 growth_rate |-> RatZero, follower_change |-> follower_change,
                 raised |-> FALSE]
    IN  IF UsesFollowerChange(profile)
        THEN [zero EXCEPT !.daily_growth = follower_change,
                          !.weekly_growth = follower_change]
        ELSE IF UsesHistory(profile)
        THEN LET sorted_history == StableSort(history, [i, j \in DOMAIN history |-> TimestampBefore(history[i], history[j])])
                 n == Len(sorted_history)
                 latest == Get(sorted_history[n], "followers", 0)
                 previous == Get(sorted_history[n - 1], "followers", 0)
                 weekly_growth ==
                     WindowGrowth(sorted_history, now - WeekDays, followers)
                 monthly_growth ==
                     WindowGrowth(sorted_history, now - MonthDays, followers)
                 computes == GrowthRateGuard(followers, weekly_growth)
             IN  [zero EXCEPT
                    !.follower_change = latest - previous,
                    !.daily_growth = latest - previous,
                    !.weekly_growth = weekly_growth,
                    !.monthly_growth = monthly_growth,
                    !.growth_rate =
                        IF computes /\ followers - weekly_growth # 0
                        THEN GrowthRate(weekly_growth, followers)
                        ELSE RatZero,
                    !.raised = computes /\ followers - weekly_growth = 0]
        ELSE zero

RECURSIVE SumOf(_, _)
SumOf(s, field) ==
    IF s = <<>> THEN 0 ELSE s[1][field] + SumOf(Tail(s), field)

GrowthRateAfter(a, b) == RatLt(b.growth_rate, a.growth_rate)

\* The whole handler: lines 194-317.
api_growth_stats(answer, now) ==
    LET profiles == get_account_data(answer)
        growth_data == [i \in DOMAIN profiles |-> AccountGrowth(profiles[i], now)]
        total_followers == SumOf(growth_data, "followers")
        total_growth == SumOf(growth_data, "weekly_growth")
        strip(a) == [k \in DOMAIN a \ {"raised"} |-> a[k]]
        sorted == StableSort(growth_data, [i, j \in DOMAIN growth_data |-> GrowthRateAfter(growth_data[i], growth_data[j])])
    IN  IF profiles = <<>>
        THEN [status |-> 200, total_accounts |-> 0, total_followers |-> 0,
              total_weekly_growth |-> 0, avg_growth_rate |-> RatZero,
              accounts |-> <<>>]
        ELSE IF \E i \in DOMAIN growth_data : growth_data[i].raised
        THEN [status |-> 500, error |-> "ZeroDivisionError"]
        ELSE [status |-> 200,
              total_accounts |-> Len(growth_data),
              total_followers |-> total_followers,
              total_weekly_growth |-> total_growth,
              avg_growth_rate |->
                  IF total_followers - total_growth > 0
                  THEN GrowthRate(total_growth, total_followers)
                  ELSE RatZero,
              accounts |-> [i \in DOMAIN sorted |-> strip(sorted[i])]]

(***************************************************************************)
(* analytics_service/src/api.py : api_trend_analysis (lines 319-403)       *)
(* Timestamps are in half days, so that a date holds two of them and the   *)
(* 30-day cutoff, which carries the time of day, can fall inside a date.   *)
(***************************************************************************)
HalfDays == 2
TrendWindowDays == 30
WeekPoints == 7
TwoWeekPoints == 14

\* Exact arithmetic on the rationals that stand for floats.
RECURSIVE GCD(_, _)
GCD(a, b) == IF b = 0 THEN a ELSE GCD(b, a % b)

RatNorm(r) ==
    LET g == GCD(IF r.num < 0 THEN -r.num ELSE r.num, r.den)
    IN  [num |-> r.num \div g, den |-> r.den \div g]

RatAdd(a, b) == RatNorm(Rat(a.num * b.den + b.num * a.den, a.den * b.den))
RatMul(a, b) == RatNorm(Rat(a.num * b.num, a.den * b.den))

\* sum(day['average_followers'] for day in days) / n
RECURSIVE AverageSum(_)
AverageSum(days) ==
    IF days = <<>> THEN RatZero
    ELSE RatAdd(days[1].average_followers, AverageSum(Tail(days)))

MeanOf(days, n) == RatMul(AverageSum(days), Rat(1, n))

\* timestamp.split('T')[0]
DateOf(timestamp) == timestamp \div HalfDays

\* lines 345-362: the history points of all profiles, one after the other
RECURSIVE AllPoints(_)
AllPoints(profiles) ==
    IF profiles = <<>> THEN <<>>
    ELSE Get(profiles[1], "history", <<>>) \o AllPoints(Tail(profiles))

\* lines 364-376: one entry per date that has a contribution, in date order
TrendData(profiles, now) ==
    LET thirty_days_ago == now - TrendWindowDays * HalfDays
        contributing ==
            SelectSeq(AllPoints(profiles),
                LAMBDA h : /\ Get(h, "timestamp", EmptyTimestamp) >= thirty_days_ago
                           /\ Get(h, "followers", 0) > 0)
        dates == {DateOf(contributing[i].timestamp) : i \in DOMAIN contributing}
        sorted_dates ==
            [k \in 1..Cardinality(dates) |->
                CHOOSE d \in dates : Cardinality({e \in dates : e < d}) = k - 1]
        of(d) == SelectSeq(contributing, LAMBDA h : DateOf(h.timestamp) = d)
    IN  [k \in DOMAIN sorted_dates |->
            LET d == sorted_dates[k]
                total == SumOf(of(d), "followers")
                count == Len(of(d))
            IN  [date |-> d, total_followers |-> total, account_count |-> count,
                 average_followers |-> RatNorm(Rat(total, count))]]

\* line 382: trend_data[-7:]
LastWeek(trend_data) ==
    SubSeq(trend_data, Len(trend_data) - WeekPoints + 1, Len(trend_data))

\* The preceding points, as many as there are, up to 7.
PrevWeek_Partial(trend_data) ==
    SubSeq(trend_data,
           IF Len(trend_data) >= TwoWeekPoints
           THEN Len(trend_data) - TwoWeekPoints + 1 ELSE 1,
           Len(trend_data) - WeekPoints)

\* line 383: trend_data[-14:-7] if len(trend_data) >= 14 else []
PrevWeek(trend_data) ==
    IF Len(trend_data) >= TwoWeekPoints
    THEN SubSeq(trend_data, Len(trend_data) - TwoWeekPoints + 1,
                Len(trend_data) - WeekPoints)
    ELSE <<>>

\* lines 388-391: the 5 % thresholds
Compare(last_week_avg, prev_week_avg) ==
    IF RatLt(RatMul(prev_week_avg, Rat(105, 100)), last_week_avg)
    THEN "increasing"
    ELSE IF RatLt(last_week_avg, RatMul(prev_week_avg, Rat(95, 100)))
    THEN "decreasing"
    ELSE "stable"

\* A direction from any two points or more: the last point against the first.
TrendDirection_AnyLength(trend_data) ==
    IF Len(trend_data) >= 2
    THEN Compare(trend_data[Len(trend_data)].average_followers,
                 trend_data[1].average_followers)
    ELSE "stable"

\* lines 378-391
TrendDirection(trend_data) ==
    IF Len(trend_data) >= WeekPoints
    THEN LET last_week == LastWeek(trend_data)
             prev_week == PrevWeek(trend_data)
             last_week_avg == MeanOf(last_week, WeekPoints)
             prev_week_avg == IF prev_week # <<>>
                              THEN MeanOf(prev_week, Len(prev_week))
                              ELSE last_week_avg
         IN  Compare(last_week_avg, prev_week_avg)
    ELSE "stable"

\* The whole handler.
api_trend_analysis(answer, now) ==
    LET profiles == get_account_data(answer)
        trend_data == TrendData(profiles, now)
    IN  IF profiles = <<>>
        THEN [status |-> 200, error |-> "No profile data available",
              trend_direction |-> "stable", data_points |-> 0,
              trend_data |-> <<>>]
        ELSE [status |-> 200, trend_direction |-> TrendDirection(trend_data),
              data_points |-> Len(trend_data), trend_data |-> trend_data]

(***************************************************************************)
(* analytics_service/src/api.py : get_scrape_stats (lines 20-138)          *)
(***************************************************************************)
STATS_CACHE_EXPIRY == 300
DaySeconds == 86400

\* lines 27-29: both keys are present and the entry is younger than the expiry
CacheFresh_Inclusive(cache, now) ==
    /\ "scrape_stats" \in DOMAIN cache
    /\ "timestamp" \in DOMAIN cache
    /\ now - cache.timestamp <= STATS_CACHE_EXPIRY

CacheFresh(cache, now) ==
    /\ "scrape_stats" \in DOMAIN cache
    /\ "timestamp" \in DOMAIN cache
    /\ now - cache.timestamp < STATS_CACHE_EXPIRY

\* lines 42-43 and 121-122
CacheUpdate(cache, stats_data, now) ==
    [k \in DOMAIN cache \cup {"scrape_stats", "timestamp"} |->
        IF k = "scrape_stats" THEN stats_data
        ELSE IF k = "timestamp" THEN now ELSE cache[k]]

\* lines 129-138
EmptyStats ==
    [scrapes |-> <<>>, total_scrapes |-> 0, success_count |-> 0,
     failure_count |-> 0, avg_scrape_time |-> RatZero, success_rate |-> RatZero,
     scrapes_per_day |-> RatZero, last_scrape |-> "None"]

ScrapeBefore(a, b) == a.timestamp < b.timestamp

\* lines 64-118: the statistics computed from the records of the local file
StatsFromFile(scrapes, now) ==
    LET total == Len(scrapes)
        success_count ==
            Cardinality({i \in DOMAIN scrapes : scrapes[i].accounts_successful > 0})
        week_ago == now - WeekDays * DaySeconds
        recent == {i \in DOMAIN scrapes : scrapes[i].timestamp > week_ago}
        dates == {scrapes[i].timestamp \div DaySeconds : i \in recent}
        scrapes_by_day ==
            [d \in dates |->
                Cardinality({i \in recent : scrapes[i].timestamp \div DaySeconds = d})]
        sorted_scrapes == StableSort(scrapes, [i, j \in DOMAIN scrapes |-> ScrapeBefore(scrapes[i], scrapes[j])])
        base == [scrapes |-> scrapes, total_scrapes |-> total,
                 success_count |-> success_count, failure_count |-> 0,
                 avg_scrape_time |-> RatZero, success_rate |-> RatZero,
                 scrapes_per_day |-> RatZero, last_scrape |-> "None"]
        derived == [base EXCEPT
                      !.failure_count = total - success_count,
                      !.avg_scrape_time =
                          Rat(SumOf(scrapes, "duration_seconds"), total),
                      !.success_rate = Rat(success_count * 100, total),
                      !.scrapes_per_day =
                          IF recent # {} THEN Rat(Cardinality(recent), WeekDays)
                          ELSE RatZero,
                      !.last_scrape = sorted_scrapes[total].timestamp]
    IN  IF total = 0 THEN base
        ELSE IF recent = {} THEN derived
        ELSE [k \in DOMAIN derived \cup {"scrapes_by_day"} |->
                IF k = "scrapes_by_day" THEN scrapes_by_day ELSE derived[k]]

\* The whole function.  answer is what GET /stats would answer at this moment:
\* [kind |-> "ok", body |-> stats], [kind |-> "status"] or [kind |-> "error"].
\* The result is [ret, cache, requested, tier].
get_scrape_stats(cache, now, answer, file) ==
    IF CacheFresh(cache, now)
    THEN [ret |-> cache.scrape_stats, cache |-> cache,
          requested |-> FALSE, tier |-> "cache"]
    ELSE IF answer.kind = "ok"
    THEN [ret |-> answer.body, cache |-> CacheUpdate(cache, answer.body, now),
          requested |-> TRUE, tier |-> "remote"]
    ELSE IF file.state = "ok"
    THEN LET stats_data == StatsFromFile(file.scrapes, now)
         IN  [ret |-> stats_data, cache |-> CacheUpdate(cache, stats_data, now),
              requested |-> TRUE, tier |-> "file"]
    ELSE [ret |-> EmptyStats, cache |-> cache,
          requested |-> TRUE, tier |-> "empty"]

(***************************************************************************)
(* app.py : the profile resolver and the leaderboard.                      *)
(* A file is [state |-> "missing"] or [state |-> "ok", data |-> contents]. *)
(* The presentation fields (profile_img_url, bio) are left out.            *)
(***************************************************************************)
MissingFile == [state |-> "missing"]
FileOf(contents) == [state |-> "ok", data |-> contents]

SyntheticFollowers == 1000
KeepBackups == 5

\* "x.get('follower_count') is not None"
HasCount(profile) == Get(profile, "follower_count", None) # None

\* lines 653-678
get_sample_data_Empty(now) == <<>>

get_sample_data(now) ==
    << [username |-> "alexisivyedge", follower_count |-> 314000, timestamp |-> now],
       [username |-> "jodyvollmodel", follower_count |-> 102000, timestamp |-> now],
       [username |-> "aikakittie", follower_count |-> 113000, timestamp |-> now] >>

\* dict(d, key=value)
With(d, key, value) ==
    [k \in DOMAIN d \cup {key} |-> IF k = key THEN value ELSE d[k]]

\* lines 558-582: the cache file as a username-indexed dict (the last entry of a
\* username wins); {} when the file is missing
load_previous_profile_data(cache_file) ==
    IF cache_file.state = "missing" THEN <<>>
    ELSE LET cache_data == cache_file.data
             named == {i \in DOMAIN cache_data :
                          Get(cache_data[i], "username", "") # ""}
             names == {cache_data[i].username : i \in named}
         IN  [u \in names |->
                cache_data[CHOOSE i \in named :
                    /\ cache_data[i].username = u
                    /\ \A j \in named : cache_data[j].username = u => j <= i]]

\* A save that never deletes a backup.
save_current_profile_data_KeepingAll(profiles, cache_file, backup_names, now) ==
    LET with_count == SelectSeq(profiles, HasCount)
        simplified == [i \in DOMAIN with_count |->
                        [username |-> Get(with_count[i], "username", "None"),
                         follower_count |-> with_count[i].follower_count,
                         timestamp |-> Get(with_count[i], "timestamp", None)]]
    IN  [cache |-> FileOf(simplified),
         backups |-> IF cache_file.state = "ok" THEN backup_names \cup {now}
                     ELSE backup_names]

\* A save that appends the new entries to the ones the file holds.
save_current_profile_data_Appending(profiles, cache_file, backup_names, now) ==
    LET with_count == SelectSeq(profiles, HasCount)
        simplified == [i \in DOMAIN with_count |->
                        [username |-> Get(with_count[i], "username", "None"),
                         follower_count |-> with_count[i].follower_count,
                         timestamp |-> Get(with_count[i], "timestamp", None)]]
    IN  [cache |-> FileOf((IF cache_file.state = "ok" THEN cache_file.data
                           ELSE <<>>) \o simplified),
         backups |-> IF cache_file.state = "ok" THEN backup_names \cup {now}
                     ELSE backup_names]

\* lines 584-631: the backup of the old cache file, the rotation of the backups,
\* and the new cache file.  The result is [cache, backups].
save_current_profile_data(profiles, cache_file, backup_names, now) ==
    LET copied == IF cache_file.state = "ok" THEN backup_names \cup {now}
                  ELSE backup_names
        kept == IF cache_file.state = "ok" /\ Cardinality(copied) > KeepBackups
                THEN {b \in copied :
                        Cardinality({c \in copied : c > b}) < KeepBackups}
                ELSE copied
        with_count == SelectSeq(profiles, HasCount)
        simplified == [i \in DOMAIN with_count |->
                        [username |-> Get(with_count[i], "username", "None"),
                         follower_count |-> with_count[i].follower_count,
                         timestamp |-> Get(with_count[i], "timestamp", None)]]
    IN  [cache |-> FileOf(simplified), backups |-> kept]

\* lines 424-429: the profile's timestamp
WithTimestamp(profile, now) ==
    IF "checked_at" \in DOMAIN profile /\ "timestamp" \notin DOMAIN profile
    THEN With(profile, "timestamp", profile.checked_at)
    ELSE IF "timestamp" \notin DOMAIN profile
    THEN With(profile, "timestamp", now)
    ELSE profile

\* A follower_change that adds the change stored with the earlier count.
FollowerChange_Cumulative(profile, latest_file, previous_data) ==
    LET username == Get(profile, "username", "None")
        stored == IF latest_file.state = "ok" THEN latest_file.data ELSE <<>>
        matches == {i \in DOMAIN stored :
                        Get(stored[i], "username", "None") = username}
        earlier == stored[CHOOSE i \in matches : \A j \in matches : i <= j]
    IN  IF matches # {} /\ HasCount(profile) /\ HasCount(earlier)
        THEN profile.follower_count - earlier.follower_count
                + Get(earlier, "follower_change", 0)
        ELSE 0

\* A follower_change that counts a profile without earlier data from zero.
FollowerChange_FromZero(profile, latest_file, previous_data) ==
    LET username == Get(profile, "username", "None")
        stored == IF latest_file.state = "ok" THEN latest_file.data ELSE <<>>
        known == \/ \E i \in DOMAIN stored :
                        Get(stored[i], "username", "None") = username
                 \/ username \in DOMAIN previous_data
    IN  IF ~known /\ HasCount(profile) THEN profile.follower_count
        ELSE 0

\* lines 462-512: follower_change of one profile, from latest_data.json when it
\* holds the username (compared exactly), else from the previous-profile cache
FollowerChange(profile, latest_file, previous_data) ==
    LET username == Get(profile, "username", "None")
        historical_data == IF latest_file.state = "ok" THEN latest_file.data ELSE <<>>
        matches == {i \in DOMAIN historical_data :
                        Get(historical_data[i], "username", "None") = username}
        historical_profile ==
            historical_data[CHOOSE i \in matches : \A j \in matches : i <= j]
        current_count == Get(profile, "follower_count", 0)
        from_latest ==
            /\ matches # {}
            /\ "follower_count" \in DOMAIN historical_profile
            /\ historical_profile.follower_count # None  \* int(None): TypeError
            /\ current_count # None                      \* None - int: TypeError
    IN  IF from_latest
        THEN current_count - historical_profile.follower_count
        ELSE IF username \in DOMAIN previous_data /\ HasCount(profile)
        THEN LET previous_count ==
                    Get(previous_data[username], "follower_count", None)
             IN  IF previous_count # None
                 THEN profile.follower_count - previous_count
                 ELSE 0
        ELSE 0

\* A resolver that adds no synthetic profile.
AddSynthetic_None(profiles, local_accounts, existing_usernames, now) == profiles

\* lines 522-541: a synthetic profile for each tracked account that the scraper's
\* data lacks, once per lower-cased username
RECURSIVE AddSynthetic(_, _, _, _)
AddSynthetic(profiles, local_accounts, existing_usernames, now) ==
    IF local_accounts = <<>> THEN profiles
    ELSE LET username == Get(local_accounts[1], "username", "")
         IN  IF username # "" /\ Lower(username) \notin existing_usernames
             THEN AddSynthetic(
                    Append(profiles,
                        [username |-> username,
                         follower_count |-> SyntheticFollowers,
                         follower_change |-> 0, timestamp |-> now,
                         synthetic |-> TRUE]),
                    Tail(local_accounts),
                    existing_usernames \cup {Lower(username)}, now)
             ELSE AddSynthetic(profiles, Tail(local_accounts),
                               existing_usernames, now)

\* Whether GET /profiles gave a non-empty 'profiles' list (lines 383-392).
\* An answer is [kind |-> "ok", body |-> dict], [kind |-> "status"] (4xx/5xx,
\* raise_for_status), [kind |-> "error"] (no connection, timeout) or
\* [kind |-> "nojson"] (a body that is no JSON).
FetchSucceeds(answer) ==
    /\ answer.kind = "ok"
    /\ "profiles" \in DOMAIN answer.body
    /\ answer.body.profiles # <<>>

\* lines 378-556.  The result is [ret, cache, backups, fetched].
get_profiles_from_scraper(answer, local_accounts, latest_file, cache_file, backup_names, now) ==
    IF FetchSucceeds(answer)
    THEN LET local_usernames ==
                {Lower(local_accounts[i].username) : i \in DOMAIN local_accounts}
             filtered_profiles ==
                SelectSeq(answer.body.profiles,
                    LAMBDA p : Lower(Get(p, "username", "")) \in local_usernames)
             previous_data == load_previous_profile_data(cache_file)
             processed ==
                [i \in DOMAIN filtered_profiles |->
                    LET stamped == WithTimestamp(filtered_profiles[i], now)
                    IN  With(stamped, "follower_change",
                             FollowerChange(stamped, latest_file, previous_data))]
             existing_usernames ==
                {Lower(processed[i].username) : i \in DOMAIN processed}
             profiles == AddSynthetic(processed, local_accounts,
                                      existing_usernames, now)
             saved == save_current_profile_data(profiles, cache_file,
                                                backup_names, now)
         IN  [ret |-> profiles, cache |-> saved.cache, backups |-> saved.backups,
              fetched |-> TRUE]
    ELSE [ret |-> get_sample_data(now), cache |-> cache_file,
          backups |-> backup_names, fetched |-> FALSE]

\* lines 383-388: every call sends GET /profiles; nothing is kept in memory
SendsRequest(answer, st) == TRUE

\* line 749: sorted(data, key=follower_count, reverse=True)
CountAfter(a, b) == Get(a, "follower_count", 0) > Get(b, "follower_count", 0)
CountBefore(a, b) == Get(a, "follower_count", 0) < Get(b, "follower_count", 0)

LeaderboardSort_Reversed(data) == Reverse(StableSort(data, [i, j \in DOMAIN data |-> CountBefore(data[i], data[j])]))

LeaderboardSort(data) == StableSort(data, [i, j \in DOMAIN data |-> CountAfter(data[i], data[j])])

\* lines 744-797, on the profiles the resolver returned.
\* The result is [response, latest].
LeaderboardOf(profiles) ==
    LET with_count == SelectSeq(profiles, HasCount)
        sorted == LeaderboardSort(with_count)
        data == [i \in DOMAIN sorted |-> With(sorted[i], "rank", i)]
    IN  [response |-> [status |-> 200,
                       leaderboard |-> data,
                       updated_at |-> IF data # <<>> THEN data[1].timestamp ELSE None,
                       total_accounts |-> Len(data)],
         latest |-> FileOf(data)]

\* One request to /api/leaderboard (lines 737-806) in the state st of the files
\* and of the earlier calls: the resolver, then the leaderboard, then the write
\* of latest_data.json.  The result is the state after it.
HandleLeaderboard(answer, st) ==
    LET r == get_profiles_from_scraper(answer, st.accounts, st.latest_data,
                st.previous_cache, st.backups, st.lb_now)
        lb == LeaderboardOf(r.ret)
        before == st.lb_call
    IN  [accounts |-> st.accounts,
         latest_data |-> lb.latest,
         previous_cache |-> r.cache,
         backups |-> r.backups,
         lb_now |-> st.lb_now,
         lb_call |-> [at |-> st.lb_now,
                      answer |-> answer.kind,
                      input |-> answer,
                      fetched |-> r.fetched,
                      requested |-> SendsRequest(answer, st),
                      ret |-> r.ret,
                      had_cache |-> st.previous_cache,
                      had_latest |-> st.latest_data,
                      made |-> before.made \cup (r.backups \ st.backups),
                      prior_at |-> before.success_at,
                      prior_ret |-> before.success_ret,
                      success_at |-> IF r.fetched THEN st.lb_now
                                     ELSE before.success_at,
                      success_ret |-> IF r.fetched THEN r.ret
                                      ELSE before.success_ret],
         lb_response |-> lb.response,
         lb_seen |-> st.lb_seen]

(***************************************************************************)
(* account_manager.py : AccountManager.  The two lists are the contents of *)
(* accounts.json and pending_accounts.json.  A save that fails (_save_*    *)
(* returning False) leaves its file as it was.                             *)
(***************************************************************************)
\* lines 107-108: username[1:] if username.startswith('@')
StripAt(u) ==
    CASE u = "@a" -> "a" [] u = "@A" -> "A" [] u = "@@a" -> "@a" [] OTHER -> u

\* The index of the first entry whose username equals u when both are
\* lower-cased; 0 when there is none (the for ... break loops).
FirstMatch(entries, u) ==
    LET matches == {i \in DOMAIN entries : Lower(entries[i].username) = Lower(u)}
    IN  IF matches = {} THEN 0
        ELSE CHOOSE i \in matches : \A j \in matches : i <= j

\* A deletion that also drops every entry after the one deleted.
DeleteAt_Truncating(entries, i) == SubSeq(entries, 1, i - 1)

\* del entries[i]
DeleteAt(entries, i) ==
    SubSeq(entries, 1, i - 1) \o SubSeq(entries, i + 1, Len(entries))

\* submit_account without the check of the tracked accounts.
submit_account_Unchecked(username, submitter, tracked, pending_accounts, now, saved) ==
    LET name == StripAt(username)
    IN  IF username = "" \/ FirstMatch(pending_accounts, name) # 0 \/ ~saved
        THEN [ok |-> FALSE, pending |-> pending_accounts]
        ELSE [ok |-> TRUE,
              pending |-> Append(pending_accounts,
                            [username |-> name, submitter |-> submitter,
                             submitted_at |-> now])]

\* lines 101-138.  The result is [ok, pending].
submit_account(username, submitter, tracked, pending_accounts, now, saved) ==
    LET name == StripAt(username)
    IN  IF username = "" THEN [ok |-> FALSE, pending |-> pending_accounts]
        ELSE IF FirstMatch(tracked, name) # 0
        THEN [ok |-> FALSE, pending |-> pending_accounts]
        ELSE IF FirstMatch(pending_accounts, name) # 0
        THEN [ok |-> FALSE, pending |-> pending_accounts]
        ELSE IF ~saved THEN [ok |-> FALSE, pending |-> pending_accounts]
        ELSE [ok |-> TRUE,
              pending |-> Append(pending_accounts,
                            [username |-> name, submitter |-> submitter,
                             submitted_at |-> now])]

\* lines 140-180.  The result is [ok, tracked, pending].
approve_account(username, tracked, pending_accounts, now, saved_pending, saved_accounts) ==
    LET i == FirstMatch(pending_accounts, username)
        account_to_approve == pending_accounts[i]
    IN  IF i = 0 \/ ~saved_pending
        THEN [ok |-> FALSE, tracked |-> tracked, pending |-> pending_accounts]
        ELSE IF ~saved_accounts
        THEN [ok |-> FALSE, tracked |-> tracked,
              pending |-> DeleteAt(pending_accounts, i)]
        ELSE [ok |-> TRUE,
              tracked |-> Append(tracked,
                            [username |-> account_to_approve.username,
                             submitter |-> Get(account_to_approve, "submitter",
                                               "Anonymous"),
                             approved_at |-> now]),
              pending |-> DeleteAt(pending_accounts, i)]

\* lines 182-204.  The result is [ok, pending].
reject_account(username, pending_accounts, saved) ==
    LET i == FirstMatch(pending_accounts, username)
    IN  IF i = 0 \/ ~saved THEN [ok |-> FALSE, pending |-> pending_accounts]
        ELSE [ok |-> TRUE, pending |-> DeleteAt(pending_accounts, i)]

\* lines 206-228.  The result is [ok, tracked].
remove_account(username, tracked, saved) ==
    LET i == FirstMatch(tracked, username)
    IN  IF i = 0 \/ ~saved THEN [ok |-> FALSE, tracked |-> tracked]
        ELSE [ok |-> TRUE, tracked |-> DeleteAt(tracked, i)]

(***************************************************************************)
(* The requests to /api/leaderboard.                                       *)
(***************************************************************************)
Names == {"a", "A", "b"}
RemoteCounts == {None} \cup (0..MaxFollowers)

RemoteProfiles ==
    [username : Names, follower_count : RemoteCounts]
        \cup {[username |-> "b"]}
        \cup {[username |-> "a", follower_count |-> 1, checked_at |-> 7]}

ProfileLists ==
    UNION {[1..n -> RemoteProfiles] : n \in 1..MaxProfiles}

FailingAnswers ==
    {[kind |-> "status"], [kind |-> "error"], [kind |-> "nojson"],
     [kind |-> "ok", body |-> [profiles |-> <<>>]],
     [kind |-> "ok", body |-> <<>>]}

RichAnswers ==
    {[kind |-> "ok", body |-> [profiles |-> l]] : l \in ProfileLists}
        \cup FailingAnswers

TrackedLists ==
    {<<>>,
     <<[username |-> "a"]>>,
     <<[username |-> "a"], [username |-> "b"]>>,
     <<[username |-> "B"], [username |-> "A"]>>,
     <<[username |-> "a"], [username |-> "c"]>>}

NoLbCall == [at |-> None, success_at |-> None, success_ret |-> <<>>, made |-> {}]

FreshState(tracked) ==
    [accounts |-> tracked, latest_data |-> MissingFile,
     previous_cache |-> MissingFile, backups |-> {}, lb_now |-> 0,
     lb_call |-> NoLbCall, lb_response |-> NoResponse, lb_seen |-> NoCall]

LbState ==
    [accounts |-> accounts, latest_data |-> latest_data,
     previous_cache |-> previous_cache, backups |-> backups, lb_now |-> lb_now,
     lb_call |-> lb_call, lb_response |-> lb_response, lb_seen |-> lb_seen]

LbIs(st) ==
    /\ accounts = st.accounts
    /\ latest_data = st.latest_data
    /\ previous_cache = st.previous_cache
    /\ backups = st.backups
    /\ lb_now = st.lb_now
    /\ lb_call = st.lb_call
    /\ lb_response = st.lb_response
    /\ lb_seen = st.lb_seen

LbBecomes(st) ==
    /\ accounts' = st.accounts
    /\ latest_data' = st.latest_data
    /\ previous_cache' = st.previous_cache
    /\ backups' = st.backups
    /\ lb_now' = st.lb_now
    /\ lb_call' = st.lb_call
    /\ lb_response' = st.lb_response
    /\ lb_seen' = st.lb_seen

\* The parts of the system a specification leaves alone.
StatsIdle ==
    /\ STATS_CACHE = <<>>
    /\ stats_now = 0
    /\ stats_file = MissingFile
    /\ stats_call = NoCall

GrowthIdle ==
    /\ scraper_profiles = [kind |-> "error", body |-> <<>>]
    /\ growth_now = 0
    /\ growth_pc = "idle"
    /\ growth_response = NoResponse
    /\ growth_call = NoCall

LbIdle == LbIs(FreshState(<<>>))

TrendIdle ==
    /\ trend_profiles = [kind |-> "error", body |-> <<>>]
    /\ trend_now = 0
    /\ trend_pc = "idle"
    /\ trend_response = NoResponse

RegIdle ==
    /\ pending = <<>>
    /\ reg_call = NoCall

\* No request and no call under way.
WebRequests == {1, 2}
Threads == {1, 2}
Callers == {1, 2}

IdleProc == [pc |-> "idle"]

WebIdle == web_req = [r \in WebRequests |-> IdleProc]
ThreadsIdle == stats_threads = [t \in Threads |-> IdleProc]
ScrapeIdle == scrape_run = IdleProc
SubmitIdle == submit_calls = [c \in Callers |-> IdleProc]

ProcIdle == WebIdle /\ ThreadsIdle /\ ScrapeIdle /\ SubmitIdle

\* Whether get_profiles_from_scraper has been called.
LbCalled == lb_call.at # None

\* ---- SpecLeaderboard: one request, on any answer of the scraper, in a fresh
\* installation or after an earlier request that was served from the scraper.
EarlierAnswers ==
    {[kind |-> "ok",
      body |-> [profiles |-> <<[username |-> "a", follower_count |-> 1],
                               [username |-> "b", follower_count |-> 0]>>]]}

EarlierGap == 100

AfterEarlier(tracked, answer) ==
    LET st == HandleLeaderboard(answer, FreshState(tracked))
    IN  [st EXCEPT !.lb_now = EarlierGap, !.lb_response = NoResponse]

LeaderboardInit ==
    /\ \E tracked \in TrackedLists :
        \/ LbIs(FreshState(tracked))
        \/ \E answer \in EarlierAnswers : LbIs(AfterEarlier(tracked, answer))
    /\ GrowthIdle /\ StatsIdle /\ TrendIdle /\ RegIdle /\ ProcIdle

GetLeaderboardOnce ==
    /\ lb_response = NoResponse
    /\ \E answer \in RichAnswers : LbBecomes(HandleLeaderboard(answer, LbState))
    /\ UNCHANGED <<growthVars, statsVars, trendVars, regVars, procVars>>

LeaderboardNext == GetLeaderboardOnce

SpecLeaderboard == LeaderboardInit /\ [][LeaderboardNext]_vars

\* ---- SpecResolver: requests one after the other, while time passes.
ResolverAnswers ==
    EarlierAnswers
        \cup {[kind |-> "ok",
               body |-> [profiles |-> <<[username |-> "a", follower_count |-> 0]>>]],
              [kind |-> "status"], [kind |-> "error"]}

LbClockSteps == {100, 300}

ResolverInit ==
    /\ \E tracked \in {<<[username |-> "a"]>>,
                       <<[username |-> "a"], [username |-> "b"]>>} :
        LbIs(FreshState(tracked))
    /\ GrowthIdle /\ StatsIdle /\ TrendIdle /\ RegIdle /\ ProcIdle

GetLeaderboard ==
    /\ \E answer \in ResolverAnswers : LbBecomes(HandleLeaderboard(answer, LbState))
    /\ UNCHANGED <<growthVars, statsVars, trendVars, regVars, procVars>>

LbClockAdvance ==
    /\ \E d \in LbClockSteps :
        /\ lb_now + d <= MaxLbClock
        /\ lb_now' = lb_now + d
    /\ UNCHANGED <<accounts, latest_data, previous_cache, backups, lb_call,
                   lb_response, lb_seen>>
    /\ UNCHANGED <<growthVars, statsVars, trendVars, regVars, procVars>>

ResolverNext == GetLeaderboard \/ LbClockAdvance

SpecResolver == ResolverInit /\ [][ResolverNext]_vars

(***************************************************************************)
(* The calls of get_scrape_stats, the clock and the local file.            *)
(***************************************************************************)
RemoteStats ==
    {[scrapes |-> <<>>, total_scrapes |-> n] : n \in 1..MaxRemote}

StatsAnswers ==
    [kind : {"ok"}, body : RemoteStats]
        \cup {[kind |-> "status"], [kind |-> "error"]}

ScrapeRecords ==
    [timestamp : {-700000, -10}, accounts_successful : {0, 1},
     duration_seconds : {4}]

StatsFiles ==
    {MissingFile, [state |-> "corrupt"], [state |-> "ok", scrapes |-> <<>>]}
        \cup {[state |-> "ok", scrapes |-> <<r>>] : r \in ScrapeRecords}

ClockSteps == {299, 300, 301}

StatsInit ==
    /\ STATS_CACHE = <<>>
    /\ stats_now = 0
    /\ stats_file \in StatsFiles
    /\ stats_call = NoCall
    /\ GrowthIdle /\ LbIdle /\ TrendIdle /\ RegIdle /\ ProcIdle

\* One call of get_scrape_stats (api_scrape_stats, line 183).
GetScrapeStats ==
    \E answer \in StatsAnswers :
        LET r == get_scrape_stats(STATS_CACHE, stats_now, answer, stats_file)
        IN  /\ STATS_CACHE' = r.cache
            /\ stats_call' = [at |-> stats_now, before |-> STATS_CACHE,
                              answer |-> answer.kind, file |-> stats_file.state,
                              requested |-> r.requested, tier |-> r.tier,
                              ret |-> r.ret]
            /\ UNCHANGED <<stats_now, stats_file>>
            /\ UNCHANGED <<growthVars, lbVars, trendVars, regVars, procVars>>

\* Time passes between two calls.
ClockAdvance ==
    \E d \in ClockSteps :
        /\ stats_now + d <= MaxClock
        /\ stats_now' = stats_now + d
        /\ UNCHANGED <<STATS_CACHE, stats_file, stats_call>>
        /\ UNCHANGED <<growthVars, lbVars, trendVars, regVars, procVars>>

StatsNext == GetScrapeStats \/ ClockAdvance

SpecStats == StatsInit /\ [][StatsNext]_vars

(***************************************************************************)
(* The requests to /api/stats/growth.  The scraper's answer and the time   *)
(* of the request are the inputs; the handler runs once on them.           *)
(***************************************************************************)
CountRange == 0..MaxCount
FollowerChanges == {-1, 0, 1}
HistoryStamps == {5, 10, 33, 38}
NowDays == {40, 41}

HistoryPoints ==
    [timestamp : HistoryStamps, followers : CountRange]
        \cup {[timestamp |-> 38]}

Histories ==
    UNION {[1..n -> HistoryPoints] : n \in 0..MaxHist}

ProfilesNamed(u) ==
    [username : {u}, followers : CountRange, history : Histories]
        \cup [username : {u}, followers : CountRange, history : Histories,
              follower_change : FollowerChanges]

\* The profiles that also come in pairs, in "data" payloads and as objects.
SmallProfilesNamed(u) ==
    {p \in ProfilesNamed(u) :
        \/ p.history = <<>>
        \/ /\ "follower_change" \notin DOMAIN p
           /\ Len(p.history) = 2
           /\ p.history[1].timestamp = 38 /\ p.history[2].timestamp = 33}

ScraperAnswers ==
    [kind : {"list"}, body : {<<p>> : p \in ProfilesNamed("a")} \cup {<<>>}]
        \cup [kind : {"list"},
              body : {<<p, q>> : p \in SmallProfilesNamed("a"),
                                 q \in SmallProfilesNamed("b")}]
        \cup [kind : {"data"}, body : {<<p>> : p \in SmallProfilesNamed("a")}]
        \cup [kind : {"object"}, body : SmallProfilesNamed("a") \cup {<<>>}]
        \cup [kind : {"status", "error"}, body : {<<>>}]

GrowthInit ==
    /\ scraper_profiles \in ScraperAnswers
    /\ growth_now \in NowDays
    /\ growth_pc = "idle"
    /\ growth_response = NoResponse
    /\ growth_call = NoCall
    /\ StatsIdle /\ LbIdle /\ TrendIdle /\ RegIdle /\ ProcIdle

ApiGrowthStats ==
    /\ growth_pc = "idle"
    /\ growth_response' = api_growth_stats(scraper_profiles, growth_now)
    /\ growth_pc' = "done"
    /\ UNCHANGED <<scraper_profiles, growth_now, growth_call>>
    /\ UNCHANGED <<statsVars, lbVars, trendVars, regVars, procVars>>

GrowthNext == ApiGrowthStats

SpecGrowth == GrowthInit /\ [][GrowthNext]_vars

(***************************************************************************)
(* The requests to /api/stats/trends.  Profile "a" has one point on each   *)
(* of the last n days, with one count in the last 7 days and one before;   *)
(* profile "b", when there is one, adds a single point.                    *)
(***************************************************************************)
TrendNows == {101}
TrendCounts == {19, 20, 21}

DailyHistory(n, earlier, recent) ==
    [k \in 1..n |->
        [timestamp |-> HalfDays * (50 - n + k),
         followers |-> IF k > n - WeekPoints THEN recent ELSE earlier]]

TrendHistories ==
    {DailyHistory(n, earlier, recent) :
        n \in 0..MaxTrendDays, earlier \in TrendCounts, recent \in TrendCounts}

ExtraPoints ==
    {[timestamp |-> 100, followers |-> 1000],   \* today, a large count
     [timestamp |-> 41, followers |-> 1000],    \* 30 days ago, inside the window
     [timestamp |-> 40, followers |-> 1000],    \* 30 days ago, outside the window
     [timestamp |-> 60, followers |-> 0],       \* a count that does not contribute
     [timestamp |-> 60],                        \* no count
     [followers |-> 1000]}                      \* no timestamp

TrendAnswers ==
    {[kind |-> "list", body |-> <<[username |-> "a", history |-> h]>>] :
        h \in TrendHistories \cup {Reverse(g) : g \in TrendHistories}}
        \cup {[kind |-> "list",
               body |-> <<[username |-> "a", history |-> h],
                          [username |-> "b", history |-> <<x>>]>>] :
                h \in TrendHistories, x \in ExtraPoints}
        \cup {[kind |-> "status", body |-> <<>>]}

TrendInit ==
    /\ trend_profiles \in TrendAnswers
    /\ trend_now \in TrendNows
    /\ trend_pc = "idle"
    /\ trend_response = NoResponse
    /\ GrowthIdle /\ StatsIdle /\ LbIdle /\ RegIdle /\ ProcIdle

ApiTrendAnalysis ==
    /\ trend_pc = "idle"
    /\ trend_response' = api_trend_analysis(trend_profiles, trend_now)
    /\ trend_pc' = "done"
    /\ UNCHANGED <<trend_profiles, trend_now>>
    /\ UNCHANGED <<growthVars, statsVars, lbVars, regVars, procVars>>

TrendNext == ApiTrendAnalysis

SpecTrend == TrendInit /\ [][TrendNext]_vars

(***************************************************************************)
(* Requests that repeat: /api/stats/growth and /api/stats/scrapes in the   *)
(* analytics service, /api/leaderboard in the application, in any order    *)
(* and within one second of the leaderboard's clock.  growth_call and      *)
(* lb_seen remember one of the earlier requests, whichever.                *)
(***************************************************************************)
RepeatProfiles ==
    {[username |-> "a", followers |-> 2,
      history |-> <<[timestamp |-> 38, followers |-> 1],
                    [timestamp |-> 33, followers |-> 0]>>],
     [username |-> "a", followers |-> 1, history |-> <<>>, follower_change |-> 1]}

RepeatAnswers ==
    [kind : {"list"}, body : {<<p>> : p \in RepeatProfiles}]
        \cup {[kind |-> "status", body |-> <<>>]}

RepeatStatsAnswers ==
    {[kind |-> "ok", body |-> [scrapes |-> <<>>, total_scrapes |-> 1]],
     [kind |-> "status"]}

RepeatLbAnswers ==
    {[kind |-> "ok",
      body |-> [profiles |-> <<[username |-> "a", follower_count |-> n]>>]] :
        n \in {0, 1}}
        \cup {[kind |-> "status"]}

RepeatInit ==
    /\ scraper_profiles = [kind |-> "error", body |-> <<>>]
    /\ growth_now \in NowDays
    /\ growth_pc = "idle"
    /\ growth_response = NoResponse
    /\ growth_call = NoCall
    /\ StatsIdle /\ TrendIdle /\ RegIdle /\ ProcIdle
    /\ LbIs(FreshState(<<[username |-> "a"]>>))

\* A request to /api/stats/growth, the first one or a later one.
RequestGrowth ==
    /\ \E answer \in RepeatAnswers, now \in NowDays :
        /\ now >= growth_now
        /\ scraper_profiles' = answer
        /\ growth_now' = now
        /\ growth_response' = api_growth_stats(answer, now)
    /\ growth_pc' = "done"
    /\ \/ growth_call' = growth_call
       \/ /\ growth_pc = "done"
          /\ growth_call' = [at |-> growth_now, answer |-> scraper_profiles,
                             response |-> growth_response]
    /\ UNCHANGED <<statsVars, lbVars, trendVars, regVars, procVars>>

\* A call of get_scrape_stats in the same process.
RequestScrapeStats ==
    /\ \E answer \in RepeatStatsAnswers :
        LET r == get_scrape_stats(STATS_CACHE, stats_now, answer, stats_file)
        IN  /\ STATS_CACHE' = r.cache
            /\ stats_call' = [at |-> stats_now, before |-> STATS_CACHE,
                              answer |-> answer.kind, file |-> stats_file.state,
                              requested |-> r.requested, tier |-> r.tier,
                              ret |-> r.ret]
    /\ UNCHANGED <<stats_now, stats_file>>
    /\ UNCHANGED <<growthVars, lbVars, trendVars, regVars, procVars>>

\* A request to /api/leaderboard.
RequestLeaderboard ==
    /\ \E answer \in RepeatLbAnswers :
        LET st == HandleLeaderboard(answer, LbState)
        IN  \/ LbBecomes(st)
            \/ /\ LbCalled
               /\ LbBecomes([st EXCEPT !.lb_seen = lb_call])
    /\ UNCHANGED <<growthVars, statsVars, trendVars, regVars, procVars>>

RepeatNext == RequestGrowth \/ RequestScrapeStats \/ RequestLeaderboard

SpecRepeat == RepeatInit /\ [][RepeatNext]_vars

(***************************************************************************)
(* The calls of the AccountManager, one after the other, from empty lists. *)
(***************************************************************************)
RegNames == {"", "a", "A", "@a", "@A", "@@a", "b"}
Submitters == {"Anonymous"}

RegistryInit ==
    /\ pending = <<>>
    /\ reg_call = NoCall
    /\ LbIdle
    /\ GrowthIdle /\ StatsIdle /\ TrendIdle /\ ProcIdle

RegCall(op, username, ok) ==
    [at |-> lb_now, op |-> op, username |-> username, ok |-> ok,
     tracked_before |-> accounts, pending_before |-> pending]

RegFrame ==
    /\ UNCHANGED <<latest_data, previous_cache, backups, lb_now, lb_call,
                   lb_response, lb_seen>>
    /\ UNCHANGED <<growthVars, statsVars, trendVars, procVars>>

SubmitAccount ==
    /\ Len(pending) < MaxPending
    /\ \E username \in RegNames, submitter \in Submitters, saved \in BOOLEAN :
        LET r == submit_account(username, submitter, accounts, pending, lb_now, saved)
        IN  /\ pending' = r.pending
            /\ accounts' = accounts
            /\ reg_call' = RegCall("submit", username, r.ok)
    /\ RegFrame

ApproveAccount ==
    /\ \E username \in RegNames, saved_pending \in BOOLEAN, saved_accounts \in BOOLEAN :
        LET r == approve_account(username, accounts, pending, lb_now,
                                 saved_pending, saved_accounts)
        IN  /\ pending' = r.pending
            /\ accounts' = r.tracked
            /\ reg_call' = RegCall("approve", username, r.ok)
    /\ RegFrame

RejectAccount ==
    /\ \E username \in RegNames, saved \in BOOLEAN :
        LET r == reject_account(username, pending, saved)
        IN  /\ pending' = r.pending
            /\ accounts' = accounts
            /\ reg_call' = RegCall("reject", username, r.ok)
    /\ RegFrame

RemoveAccount ==
    /\ \E username \in RegNames, saved \in BOOLEAN :
        LET r == remove_account(username, accounts, saved)
        IN  /\ pending' = pending
            /\ accounts' = r.tracked
            /\ reg_call' = RegCall("remove", username, r.ok)
    /\ RegFrame

RegistryNext == SubmitAccount \/ ApproveAccount \/ RejectAccount \/ RemoveAccount

SpecRegistry == RegistryInit /\ [][RegistryNext]_vars

(***************************************************************************)
(* Profiles that come without a history: the first sight of an account by  *)
(* /api/leaderboard, and a profile with neither follower_change nor        *)
(* history in /api/stats/growth.                                           *)
(***************************************************************************)
NewRemoteProfiles ==
    [username : Names, follower_count : {None, 1}] \cup {[username |-> "b"]}

NewAnswers ==
    {[kind |-> "ok", body |-> [profiles |-> l]] :
        l \in UNION {[1..n -> NewRemoteProfiles] : n \in 1..2}}
        \cup {[kind |-> "status"]}

BareProfilesNamed(u) ==
    [username : {u}, followers : {0, 2}]
        \cup [username : {u}, followers : {0, 2}, history : {<<>>}]

OtherProfilesNamed(u) ==
    {[username |-> u, followers |-> 2, history |-> <<>>, follower_change |-> 1],
     [username |-> u, followers |-> 2, follower_change |-> 0,
      history |-> <<[timestamp |-> 38, followers |-> 0]>>]}
        \cup {[username |-> u, followers |-> 2,
               history |-> <<[timestamp |-> 38, followers |-> c],
                             [timestamp |-> 33, followers |-> d]>>] :
                c \in {0, 1}, d \in {0, 1}}

BareAnswers ==
    [kind : {"list"}, body : {<<p>> : p \in BareProfilesNamed("a")}]
        \cup [kind : {"list"},
              body : {<<p, q>> : p \in BareProfilesNamed("a"),
                                 q \in OtherProfilesNamed("b")}]
        \cup [kind : {"list"},
              body : {<<q, p>> : p \in BareProfilesNamed("a"),
                                 q \in OtherProfilesNamed("b")}]

NewAccountInit ==
    /\ \E tracked \in TrackedLists :
        \/ LbIs(FreshState(tracked))
        \/ \E answer \in EarlierAnswers : LbIs(AfterEarlier(tracked, answer))
    /\ scraper_profiles \in BareAnswers
    /\ growth_now = 40
    /\ growth_pc = "idle"
    /\ growth_response = NoResponse
    /\ growth_call = NoCall
    /\ StatsIdle /\ TrendIdle /\ RegIdle /\ ProcIdle

GetLeaderboardNew ==
    /\ lb_response = NoResponse
    /\ \E answer \in NewAnswers : LbBecomes(HandleLeaderboard(answer, LbState))
    /\ UNCHANGED <<growthVars, statsVars, trendVars, regVars, procVars>>

NewAccountNext == GetLeaderboardNew \/ ApiGrowthStats

SpecNewAccount == NewAccountInit /\ [][NewAccountNext]_vars

(***************************************************************************)
(* Requests to /api/leaderboard one after the other, and removals of       *)
(* tracked accounts between them.  The scraper's list has one profile per  *)
(* username (the username is its unique key).  lb_seen is the call before  *)
(* the last one; a removal begins a new round, with no response yet.       *)
(***************************************************************************)
SuccessiveLists ==
    {<<[username |-> "a", follower_count |-> 0]>>,
     <<[username |-> "a", follower_count |-> 1],
       [username |-> "b", follower_count |-> 1]>>,
     <<[username |-> "b", follower_count |-> 1],
       [username |-> "a", follower_count |-> 0]>>,
     <<[username |-> "A", follower_count |-> 1], [username |-> "b"]>>}

SuccessiveAnswers ==
    {[kind |-> "ok", body |-> [profiles |-> l]] : l \in SuccessiveLists}
        \cup {[kind |-> "status"]}

SuccessiveTracked ==
    {<<[username |-> "a"], [username |-> "b"]>>,
     <<[username |-> "a"], [username |-> "alexisivyedge"]>>}

RemovedNames == {"A", "alexisivyedge"}

SuccessiveInit ==
    /\ \E tracked \in SuccessiveTracked : LbIs(FreshState(tracked))
    /\ GrowthIdle /\ StatsIdle /\ TrendIdle /\ RegIdle /\ ProcIdle

NextLeaderboard ==
    /\ \E answer \in SuccessiveAnswers :
        LbBecomes([HandleLeaderboard(answer, LbState) EXCEPT !.lb_seen = lb_call])
    /\ UNCHANGED <<growthVars, statsVars, trendVars, regVars, procVars>>

RemoveTracked ==
    /\ \E username \in RemovedNames, saved \in BOOLEAN :
        LET r == remove_account(username, accounts, saved)
        IN  /\ accounts' = r.tracked
            /\ reg_call' = RegCall("remove", username, r.ok)
    /\ lb_response' = NoResponse
    /\ UNCHANGED <<pending, latest_data, previous_cache, backups, lb_now,
                   lb_call, lb_seen>>
    /\ UNCHANGED <<growthVars, statsVars, trendVars, procVars>>

SuccessiveNext == NextLeaderboard \/ RemoveTracked

SpecSuccessive == SuccessiveInit /\ [][SuccessiveNext]_vars

(***************************************************************************)
(* scrape_new.py : scrape_accounts (lines 109-311).  scrape_run holds the  *)
(* position in the function (pc), its arguments, the loop variables, the   *)
(* results so far, and tries: what has happened for the current account,   *)
(* as [ev |-> "call", attempt, outcome] and [ev |-> "sleep", seconds,      *)
(* kind] records.  scrape_profile returns a result with a follower count   *)
(* ("count"), one without ("nocount"), None ("none"), or raises ("raise"). *)
(* ret is [is |-> "None"] or [is |-> "list", list |-> all_results].        *)
(***************************************************************************)
DELAY_SECONDS == 2
MaxAttempts == 3
QuickModeLimit == 3

\* A retry delay that does not grow.
RetryDelay_Constant(attempt) == 2

\* lines 246, 272: retry_delay = attempt * 2
RetryDelay(attempt) == attempt * 2

\* lines 130-132: the dashboard's quick test scrapes the first account only
AccountsToScrape(accounts_to_scrape, rate_limited) ==
    IF Len(accounts_to_scrape) > QuickModeLimit /\ ~rate_limited
    THEN <<accounts_to_scrape[1]>>
    ELSE accounts_to_scrape

ProfileOutcomes == {"count", "nocount", "none", "raise"}

ScrapeLists ==
    {<<>>, <<"a">>, <<"a", "b">>, <<"a", "b", "a">>, <<"a", "b", "c", "d">>}

ScrapeCalled(accounts_to_scrape, rate_limited, key) ==
    [pc |-> "called", accounts |-> accounts_to_scrape,
     rate_limited |-> rate_limited, key |-> key, todo |-> <<>>, i |-> 0,
     attempt |-> 0, tries |-> <<>>, results |-> <<>>, ret |-> [is |-> "unset"]]

ScrapeInit ==
    /\ scrape_run \in {ScrapeCalled(l, r, k) :
                        l \in ScrapeLists, r \in BOOLEAN,
                        k \in {"ok", "missing", "unreadable"}}
    /\ WebIdle /\ ThreadsIdle /\ SubmitIdle
    /\ GrowthIdle /\ StatsIdle /\ LbIdle /\ TrendIdle /\ RegIdle

ScrapeFrame ==
    UNCHANGED <<growthVars, statsVars, lbVars, trendVars, regVars, web_req,
                stats_threads, submit_calls>>

\* lines 111-143: the key, the scraper, the list to process
ScrapeBegin ==
    /\ scrape_run.pc = "called"
    /\ scrape_run' =
        IF scrape_run.key # "ok"
        THEN [scrape_run EXCEPT !.pc = "done", !.ret = [is |-> "None"]]
        ELSE LET todo == AccountsToScrape(scrape_run.accounts,
                                          scrape_run.rate_limited)
             IN  IF todo = <<>>
                 THEN [scrape_run EXCEPT !.pc = "done",
                                         !.ret = [is |-> "list", list |-> <<>>]]
                 ELSE [scrape_run EXCEPT !.pc = "attempt", !.todo = todo,
                                         !.i = 1, !.attempt = 1]
    /\ ScrapeFrame

\* lines 206-272: one pass of "for attempt in range(1, 4)", up to the sleep
ScrapeProfile ==
    /\ scrape_run.pc = "attempt"
    /\ \E outcome \in ProfileOutcomes :
        LET call == [ev |-> "call", attempt |-> scrape_run.attempt,
                     outcome |-> outcome]
            tries == Append(scrape_run.tries, call)
        IN  scrape_run' =
                IF outcome = "count"
                THEN [scrape_run EXCEPT
                        !.pc = "account_done", !.tries = tries,
                        !.results = Append(@,
                            [username |-> scrape_run.todo[scrape_run.i],
                             follower_count |-> 1, idx |-> scrape_run.i])]
                ELSE IF scrape_run.attempt < MaxAttempts
                THEN [scrape_run EXCEPT !.pc = "retry_wait", !.tries = tries]
                ELSE [scrape_run EXCEPT !.pc = "account_done", !.tries = tries]
    /\ ScrapeFrame

\* lines 245-258, 271-284: time.sleep(retry_delay), then the next attempt
ScrapeRetryWait ==
    /\ scrape_run.pc = "retry_wait"
    /\ scrape_run' =
        [scrape_run EXCEPT
            !.pc = "attempt",
            !.tries = Append(@, [ev |-> "sleep", kind |-> "retry",
                                 seconds |-> RetryDelay(scrape_run.attempt)]),
            !.attempt = @ + 1]
    /\ ScrapeFrame

\* lines 286-306: the delay before the next account, or the return
ScrapeAccountDone ==
    /\ scrape_run.pc = "account_done"
    /\ scrape_run' =
        IF scrape_run.i < Len(scrape_run.todo) /\ DELAY_SECONDS > 0
        THEN [scrape_run EXCEPT
                !.pc = "next_wait",
                !.tries = Append(@, [ev |-> "sleep", kind |-> "next",
                                     seconds |-> DELAY_SECONDS])]
        ELSE IF scrape_run.i < Len(scrape_run.todo)
        THEN [scrape_run EXCEPT !.pc = "attempt", !.i = @ + 1, !.attempt = 1,
                                !.tries = <<>>]
        ELSE [scrape_run EXCEPT
                !.pc = "done",
                !.ret = [is |-> "list", list |-> scrape_run.results]]
    /\ ScrapeFrame

\* the next pass of "for i, username in enumerate(accounts_to_scrape)"
ScrapeNextAccount ==
    /\ scrape_run.pc = "next_wait"
    /\ scrape_run' = [scrape_run EXCEPT !.pc = "attempt", !.i = @ + 1,
                                        !.attempt = 1, !.tries = <<>>]
    /\ ScrapeFrame

ScrapeNext ==
    \/ ScrapeBegin
    \/ ScrapeProfile
    \/ ScrapeRetryWait
    \/ ScrapeAccountDone
    \/ ScrapeNextAccount

\* scrape_profile and time.sleep return: the run is never left waiting.
SpecScrape == ScrapeInit /\ [][ScrapeNext]_vars /\ WF_vars(ScrapeNext)

(***************************************************************************)
(* analytics_service/src/api.py : get_scrape_stats called by the threads   *)
(* of the server, one statement at a time.  A thread's record holds its    *)
(* position (pc), its local variables now and stats_data, and what it      *)
(* returned; the refresh a thread performs in its n-th call is <<t, n>>.   *)
(* stats_call remembers which refresh wrote each key of STATS_CACHE, and   *)
(* a thread remembers whose timestamp it tested and whose value it read.   *)
(***************************************************************************)
MaxThreadCalls == 2

NoRefresh == <<0, 0>>

ThreadIdle(n) ==
    [pc |-> "idle", n |-> n, now |-> 0, stats_data |-> <<>>,
     seen_ts_by |-> NoRefresh, seen_data_by |-> NoRefresh, tier |-> "none",
     ret |-> <<>>]

ThreadClockSteps == {150, 300}

ThreadsInit ==
    /\ STATS_CACHE = <<>>
    /\ stats_now = 0
    /\ stats_file \in {MissingFile,
                       [state |-> "ok",
                        scrapes |-> <<[timestamp |-> -10, accounts_successful |-> 1,
                                       duration_seconds |-> 4]>>]}
    /\ stats_call = [at |-> None, data_by |-> NoRefresh, ts_by |-> NoRefresh]
    /\ stats_threads = [t \in Threads |-> ThreadIdle(0)]
    /\ WebIdle /\ ScrapeIdle /\ SubmitIdle
    /\ GrowthIdle /\ LbIdle /\ TrendIdle /\ RegIdle

ThreadsFrame ==
    UNCHANGED <<growthVars, lbVars, trendVars, regVars, web_req, scrape_run,
                submit_calls>>

\* line 26: now = datetime.now()
ThreadCall(t) ==
    /\ stats_threads[t].pc \in {"idle", "done"}
    /\ stats_threads[t].n < MaxThreadCalls
    /\ stats_threads' =
        [stats_threads EXCEPT ![t] =
            [ThreadIdle(stats_threads[t].n + 1) EXCEPT !.pc = "check",
                                                      !.now = stats_now]]
    /\ UNCHANGED <<STATS_CACHE, stats_now, stats_file, stats_call>>
    /\ ThreadsFrame

\* lines 27-29: the test of the keys and of the age of STATS_CACHE['timestamp']
ThreadCheck(t) ==
    /\ stats_threads[t].pc = "check"
    /\ stats_threads' =
        [stats_threads EXCEPT ![t] =
            IF CacheFresh(STATS_CACHE, stats_threads[t].now)
            THEN [@ EXCEPT !.pc = "return_cached",
                           !.seen_ts_by = stats_call.ts_by]
            ELSE [@ EXCEPT !.pc = "fetch"]]
    /\ UNCHANGED <<STATS_CACHE, stats_now, stats_file, stats_call>>
    /\ ThreadsFrame

\* line 31: return STATS_CACHE['scrape_stats']
ThreadReturnCached(t) ==
    /\ stats_threads[t].pc = "return_cached"
    /\ stats_threads' =
        [stats_threads EXCEPT ![t] =
            [@ EXCEPT !.pc = "done", !.tier = "cache",
                      !.seen_data_by = stats_call.data_by,
                      !.ret = STATS_CACHE.scrape_stats]]
    /\ UNCHANGED <<STATS_CACHE, stats_now, stats_file, stats_call>>
    /\ ThreadsFrame

\* lines 33-118: GET /stats, and the local file when the service fails
ThreadFetch(t) ==
    /\ stats_threads[t].pc = "fetch"
    /\ \E answer \in StatsAnswers :
        stats_threads' =
            [stats_threads EXCEPT ![t] =
                IF answer.kind = "ok"
                THEN [@ EXCEPT !.pc = "write_data", !.tier = "remote",
                               !.stats_data = answer.body]
                ELSE IF stats_file.state = "ok"
                THEN [@ EXCEPT !.pc = "write_data", !.tier = "file",
                               !.stats_data =
                                   StatsFromFile(stats_file.scrapes,
                                                 stats_threads[t].now)]
                ELSE [@ EXCEPT !.pc = "done", !.tier = "empty",
                               !.ret = EmptyStats]]
    /\ UNCHANGED <<STATS_CACHE, stats_now, stats_file, stats_call>>
    /\ ThreadsFrame

\* lines 42 and 121: STATS_CACHE['scrape_stats'] = stats_data
ThreadWriteData(t) ==
    /\ stats_threads[t].pc = "write_data"
    /\ STATS_CACHE' =
        [k \in DOMAIN STATS_CACHE \cup {"scrape_stats"} |->
            IF k = "scrape_stats" THEN stats_threads[t].stats_data
            ELSE STATS_CACHE[k]]
    /\ stats_call' = [stats_call EXCEPT !.at = stats_now,
                                        !.data_by = <<t, stats_threads[t].n>>]
    /\ stats_threads' = [stats_threads EXCEPT ![t].pc = "write_timestamp"]
    /\ UNCHANGED <<stats_now, stats_file>>
    /\ ThreadsFrame

\* lines 43-45 and 122-124: STATS_CACHE['timestamp'] = now; return stats_data
ThreadWriteTimestamp(t) ==
    /\ stats_threads[t].pc = "write_timestamp"
    /\ STATS_CACHE' =
        [k \in DOMAIN STATS_CACHE \cup {"timestamp"} |->
            IF k = "timestamp" THEN stats_threads[t].now ELSE STATS_CACHE[k]]
    /\ stats_call' = [stats_call EXCEPT !.at = stats_now,
                                        !.ts_by = <<t, stats_threads[t].n>>]
    /\ stats_threads' =
        [stats_threads EXCEPT ![t] =
            [@ EXCEPT !.pc = "done", !.ret = stats_threads[t].stats_data]]
    /\ UNCHANGED <<stats_now, stats_file>>
    /\ ThreadsFrame

ThreadClockAdvance ==
    /\ \E d \in ThreadClockSteps :
        /\ stats_now + d <= MaxClock
        /\ stats_now' = stats_now + d
    /\ UNCHANGED <<STATS_CACHE, stats_file, stats_call, stats_threads>>
    /\ ThreadsFrame

ThreadsNext ==
    \/ \E t \in Threads :
        \/ ThreadCall(t)
        \/ ThreadCheck(t)
        \/ ThreadReturnCached(t)
        \/ ThreadFetch(t)
        \/ ThreadWriteData(t)
        \/ ThreadWriteTimestamp(t)
    \/ ThreadClockAdvance

SpecThreads == ThreadsInit /\ [][ThreadsNext]_vars

(***************************************************************************)
(* account_manager.py : submit_account called by several requests at a     *)
(* time (app.py:886-890 makes an AccountManager per request), interleaved  *)
(* at the loads and saves of the files.  A caller's record holds its       *)
(* position (pc), the username after line 108, its copy of the pending     *)
(* list, and the success flag it returned.                                 *)
(***************************************************************************)
SubmitNames == {"a", "@A", "b"}

SubmitIdleCall ==
    [pc |-> "idle", username |-> "", pending_accounts |-> <<>>, ok |-> FALSE]

ConcurrentSubmitInit ==
    /\ pending = <<>>
    /\ reg_call = NoCall
    /\ \E tracked \in {<<>>, <<[username |-> "b"]>>} : LbIs(FreshState(tracked))
    /\ submit_calls = [c \in Callers |-> SubmitIdleCall]
    /\ WebIdle /\ ThreadsIdle /\ ScrapeIdle
    /\ GrowthIdle /\ StatsIdle /\ TrendIdle

SubmitFrame ==
    /\ UNCHANGED <<lbVars, reg_call>>
    /\ UNCHANGED <<growthVars, statsVars, trendVars, web_req, stats_threads,
                   scrape_run>>

\* lines 103-108: the call, with a username that is not empty
SubmitCall(c) ==
    /\ submit_calls[c].pc = "idle"
    /\ \E username \in SubmitNames :
        submit_calls' =
            [submit_calls EXCEPT ![c] =
                [SubmitIdleCall EXCEPT !.pc = "check_tracked",
                                       !.username = StripAt(username)]]
    /\ UNCHANGED pending
    /\ SubmitFrame

\* lines 111-114: accounts.json is loaded and searched
SubmitCheckTracked(c) ==
    /\ submit_calls[c].pc = "check_tracked"
    /\ submit_calls' =
        [submit_calls EXCEPT ![c].pc =
            IF FirstMatch(accounts, submit_calls[c].username) # 0
            THEN "done" ELSE "check_pending"]
    /\ UNCHANGED pending
    /\ SubmitFrame

\* lines 117-120: pending_accounts.json is loaded and searched
SubmitCheckPending(c) ==
    /\ submit_calls[c].pc = "check_pending"
    /\ submit_calls' =
        [submit_calls EXCEPT ![c].pc =
            IF FirstMatch(pending, submit_calls[c].username) # 0
            THEN "done" ELSE "load"]
    /\ UNCHANGED pending
    /\ SubmitFrame

\* lines 123-132: pending_accounts.json is loaded again and the entry appended
\* to the copy
SubmitLoad(c) ==
    /\ submit_calls[c].pc = "load"
    /\ submit_calls' =
        [submit_calls EXCEPT
            ![c].pc = "save",
            ![c].pending_accounts =
                Append(pending, [username |-> submit_calls[c].username,
                                 submitter |-> "Anonymous",
                                 submitted_at |-> lb_now])]
    /\ UNCHANGED pending
    /\ SubmitFrame

\* lines 135-138: the copy is written over pending_accounts.json
SubmitSave(c) ==
    /\ submit_calls[c].pc = "save"
    /\ \E saved \in BOOLEAN :
        /\ pending' = IF saved THEN submit_calls[c].pending_accounts ELSE pending
        /\ submit_calls' = [submit_calls EXCEPT ![c].pc = "done",
                                                ![c].ok = saved]
    /\ SubmitFrame

ConcurrentSubmitNext ==
    \E c \in Callers :
        \/ SubmitCall(c)
        \/ SubmitCheckTracked(c)
        \/ SubmitCheckPending(c)
        \/ SubmitLoad(c)
        \/ SubmitSave(c)

SpecConcurrentSubmit == ConcurrentSubmitInit /\ [][ConcurrentSubmitNext]_vars

(***************************************************************************)
(* app.py : the request handlers and their calls to the scraper service.   *)
(* A request's record holds its position (pc): "idle", "waiting" while its *)
(* requests.get/post/delete call is out, "got" when the call has returned  *)
(* or raised, "done" when the response is sent; the handler; the flag the  *)
(* AccountManager returned; the call, with its timeout (None when the code *)
(* passes none) and whether an inner try guards it; and the response.      *)
(* The bodies of the /api/trends and /api/accounts responses are left out. *)
(***************************************************************************)
\* lines 383-388, 637, 896-899, 1001-1004, 1065-1067
OutboundCall(handler) ==
    CASE handler = "leaderboard" ->
            [method |-> "GET", path |-> "/profiles", timeout |-> 10, guarded |-> TRUE]
      [] handler = "trends" ->
            [method |-> "GET", path |-> "/profiles", timeout |-> 10, guarded |-> TRUE]
      [] handler = "accounts" ->
            [method |-> "GET", path |-> "/accounts", timeout |-> None, guarded |-> TRUE]
      [] handler = "submit" ->
            [method |-> "POST", path |-> "/accounts", timeout |-> None, guarded |-> TRUE]
      [] handler = "approve" ->
            [method |-> "POST", path |-> "/accounts", timeout |-> None, guarded |-> FALSE]
      [] handler = "remove" ->
            [method |-> "DELETE", path |-> "/accounts/u", timeout |-> None, guarded |-> TRUE]

\* lines 913-934, 1006-1017, 1073-1084: the response after the forwarding call
\* returned ("ok", "status") or raised ("refused", "timeout"); an exception no
\* inner try catches reaches the handler's outer except
ForwardResponse(local_ok, call, answer) ==
    IF answer \in {"refused", "timeout"} /\ ~call.guarded
    THEN [status |-> 500, success |-> FALSE]
    ELSE [status |-> 200, success |-> local_ok]

\* What get_profiles_from_scraper makes of the call's outcome.
ProfilesAnswer(answer) ==
    CASE answer = "ok" ->
            [kind |-> "ok",
             body |-> [profiles |-> <<[username |-> "a", follower_count |-> 1]>>]]
      [] answer = "status" -> [kind |-> "status"]
      [] OTHER -> [kind |-> "error"]

WebUsernames == {"", "a"}

WebWaiting(handler, local_ok, moved) ==
    [pc |-> "waiting", handler |-> handler, local_ok |-> local_ok,
     moved |-> moved, call |-> OutboundCall(handler), answer |-> "none",
     response |-> NoResponse]

WebDone(handler, local_ok, moved, response) ==
    [pc |-> "done", handler |-> handler, local_ok |-> local_ok,
     moved |-> moved, call |-> [timeout |-> None], answer |-> "none",
     response |-> response]

WebInit ==
    /\ web_req = [r \in WebRequests |-> IdleProc]
    /\ pending \in {<<>>, <<[username |-> "a", submitter |-> "Anonymous",
                            submitted_at |-> 0]>>}
    /\ reg_call = NoCall
    /\ \E tracked \in {<<>>, <<[username |-> "a"]>>} : LbIs(FreshState(tracked))
    /\ ThreadsIdle /\ ScrapeIdle /\ SubmitIdle
    /\ GrowthIdle /\ StatsIdle /\ TrendIdle

WebFrame ==
    UNCHANGED <<growthVars, statsVars, trendVars, reg_call, stats_threads,
                scrape_run, submit_calls>>

LbFilesUnchanged ==
    UNCHANGED <<latest_data, previous_cache, backups, lb_now, lb_call,
                lb_response, lb_seen>>

\* /api/leaderboard, /api/trends, /api/accounts: the call is the first step
WebReceiveRead(r) ==
    /\ web_req[r].pc = "idle"
    /\ \E handler \in {"leaderboard", "trends", "accounts"} :
        web_req' = [web_req EXCEPT ![r] = WebWaiting(handler, FALSE, FALSE)]
    /\ UNCHANGED <<accounts, pending>>
    /\ LbFilesUnchanged /\ WebFrame

\* lines 874-899: /api/submit up to the forwarding call
WebReceiveSubmit(r) ==
    /\ web_req[r].pc = "idle"
    /\ \E username \in WebUsernames, saved \in BOOLEAN :
        IF username = ""
        THEN /\ web_req' = [web_req EXCEPT ![r] =
                    WebDone("submit", FALSE, FALSE,
                            [status |-> 400, success |-> FALSE])]
             /\ UNCHANGED pending
        ELSE LET s == submit_account(username, "Anonymous", accounts, pending,
                                     lb_now, saved)
             IN  /\ pending' = s.pending
                 /\ web_req' = [web_req EXCEPT ![r] =
                        WebWaiting("submit", s.ok, FALSE)]
    /\ UNCHANGED accounts
    /\ LbFilesUnchanged /\ WebFrame

\* lines 981-1004: /api/admin/approve up to the forwarding call, which is made
\* only when the AccountManager approved
WebReceiveApprove(r) ==
    /\ web_req[r].pc = "idle"
    /\ \E username \in WebUsernames, saved_pending \in BOOLEAN,
          saved_accounts \in BOOLEAN :
        IF username = ""
        THEN /\ web_req' = [web_req EXCEPT ![r] =
                    WebDone("approve", FALSE, FALSE,
                            [status |-> 400, success |-> FALSE])]
             /\ UNCHANGED <<accounts, pending>>
        ELSE LET a == approve_account(username, accounts, pending, lb_now,
                                      saved_pending, saved_accounts)
             IN  /\ pending' = a.pending
                 /\ accounts' = a.tracked
                 /\ web_req' = [web_req EXCEPT ![r] =
                        IF a.ok THEN WebWaiting("approve", TRUE, TRUE)
                        ELSE WebDone("approve", FALSE, FALSE,
                                     [status |-> 200, success |-> FALSE])]
    /\ LbFilesUnchanged /\ WebFrame

\* lines 1046-1067: /api/admin/remove up to the forwarding call
WebReceiveRemove(r) ==
    /\ web_req[r].pc = "idle"
    /\ \E username \in WebUsernames, saved \in BOOLEAN :
        IF username = ""
        THEN /\ web_req' = [web_req EXCEPT ![r] =
                    WebDone("remove", FALSE, FALSE,
                            [status |-> 400, success |-> FALSE])]
             /\ UNCHANGED accounts
        ELSE LET d == remove_account(username, accounts, saved)
             IN  /\ accounts' = d.tracked
                 /\ web_req' = [web_req EXCEPT ![r] =
                        WebWaiting("remove", d.ok, FALSE)]
    /\ UNCHANGED pending
    /\ LbFilesUnchanged /\ WebFrame

\* The scraper service answers, with a success status or an error status, or
\* the connection fails.  Nothing obliges the service to do any of these.
ScraperReplies(r) ==
    /\ web_req[r].pc = "waiting"
    /\ \E answer \in {"ok", "status", "refused"} :
        web_req' = [web_req EXCEPT ![r].pc = "got", ![r].answer = answer]
    /\ UNCHANGED <<accounts, pending>>
    /\ LbFilesUnchanged /\ WebFrame

\* requests raises Timeout when the call was given a timeout
WebTimeout(r) ==
    /\ web_req[r].pc = "waiting"
    /\ web_req[r].call.timeout # None
    /\ web_req' = [web_req EXCEPT ![r].pc = "got", ![r].answer = "timeout"]
    /\ UNCHANGED <<accounts, pending>>
    /\ LbFilesUnchanged /\ WebFrame

\* lines 737-806: the rest of /api/leaderboard
WebRespondLeaderboard(r) ==
    /\ web_req[r].pc = "got"
    /\ web_req[r].handler = "leaderboard"
    /\ LbBecomes(HandleLeaderboard(ProfilesAnswer(web_req[r].answer), LbState))
    /\ web_req' = [web_req EXCEPT ![r].pc = "done",
                                  ![r].response = [status |-> 200, success |-> TRUE]]
    /\ UNCHANGED pending
    /\ WebFrame

\* lines 688-735, 808-858: the rest of /api/trends; get_profiles_from_scraper
\* saves the previous-profile cache, latest_data.json is not written
WebRespondTrends(r) ==
    /\ web_req[r].pc = "got"
    /\ web_req[r].handler = "trends"
    /\ LET p == get_profiles_from_scraper(ProfilesAnswer(web_req[r].answer),
                    accounts, latest_data, previous_cache, backups, lb_now)
       IN  /\ previous_cache' = p.cache
           /\ backups' = p.backups
    /\ web_req' = [web_req EXCEPT ![r].pc = "done",
                                  ![r].response = [status |-> 200, success |-> TRUE]]
    /\ UNCHANGED <<accounts, pending, latest_data, lb_now, lb_call, lb_response,
                   lb_seen>>
    /\ WebFrame

\* lines 633-651, 860-872; 900-935; 1006-1017; 1068-1080: the responses of
\* /api/accounts, /api/submit, /api/admin/approve, /api/admin/remove
WebRespond(r) ==
    /\ web_req[r].pc = "got"
    /\ web_req[r].handler \in {"accounts", "submit", "approve", "remove"}
    /\ web_req' =
        [web_req EXCEPT
            ![r].pc = "done",
            ![r].response =
                IF web_req[r].handler = "accounts"
                THEN [status |-> 200, success |-> TRUE]
                ELSE ForwardResponse(web_req[r].local_ok, web_req[r].call,
                                     web_req[r].answer)]
    /\ UNCHANGED <<accounts, pending>>
    /\ LbFilesUnchanged /\ WebFrame

WebStep(r) ==
    \/ WebTimeout(r)
    \/ WebRespondLeaderboard(r)
    \/ WebRespondTrends(r)
    \/ WebRespond(r)

WebNext ==
    \E r \in WebRequests :
        \/ WebReceiveRead(r)
        \/ WebReceiveSubmit(r)
        \/ WebReceiveApprove(r)
        \/ WebReceiveRemove(r)
        \/ ScraperReplies(r)
        \/ WebStep(r)

\* The handler's own steps and the timer of requests are taken when they can
\* be; the scraper service is under no such obligation.
SpecWeb ==
    /\ WebInit
    /\ [][WebNext]_vars
    /\ \A r \in WebRequests : WF_vars(WebStep(r))

(***************************************************************************)
(* Properties of api_growth_stats, checked under SpecGrowth.               *)
(***************************************************************************)
GrowthDone == growth_pc = "done"
GrowthOk == growth_response.status = 200
GrowthProfiles == get_account_data(scraper_profiles)
GrowthProfileSet == {GrowthProfiles[i] : i \in DOMAIN GrowthProfiles}
ReportedAccounts ==
    {growth_response.accounts[i] : i \in DOMAIN growth_response.accounts}
ReportedAccount(u) == CHOOSE a \in ReportedAccounts : a.username = u

\* The number of history points of a profile at or after a cutoff.
PointsSince(profile, cutoff) ==
    LET history == Get(profile, "history", <<>>)
    IN  Cardinality({i \in DOMAIN history :
                        Get(history[i], "timestamp", EmptyTimestamp) >= cutoff})

\* The weekly_growth the handler computed for a profile (its local variable,
\* which no response shows when the request fails).
ComputedWeekly(profile) == AccountGrowth(profile, growth_now).weekly_growth

\* C7: for every profile processed, growth_rate is 0 whenever weekly_growth = 0
\* or followers - weekly_growth <= 0, and the request completes with a normal
\* (non-error) response.
C7_ZeroRateAndNormalResponse ==
    GrowthDone =>
        \A p \in GrowthProfileSet :
            (\/ ComputedWeekly(p) = 0
             \/ Get(p, "followers", 0) - ComputedWeekly(p) <= 0)
            => /\ GrowthOk
               /\ RatEq(ReportedAccount(p.username).growth_rate, RatZero)

\* C8: whenever weekly_growth # 0 and followers - weekly_growth > 0, the reported
\* growth_rate equals (weekly_growth / (followers - weekly_growth)) * (100 / 7),
\* so it is non-zero with the sign of weekly_growth, whether weekly_growth came
\* from follower_change or from the history.
C8_RateFormulaWheneverGuardHolds ==
    (GrowthDone /\ GrowthOk) =>
        \A a \in ReportedAccounts :
            (a.weekly_growth # 0 /\ a.followers - a.weekly_growth > 0)
            => /\ a.growth_rate.num * ((a.followers - a.weekly_growth) * 7)
                    = (a.weekly_growth * 100) * a.growth_rate.den
               /\ RatSign(a.growth_rate) = (IF a.weekly_growth > 0 THEN 1 ELSE -1)

C10_ExplicitFollowerChangeUsed ==
    (GrowthDone /\ GrowthOk) =>
        \A p \in GrowthProfileSet :
            "follower_change" \in DOMAIN p
            => /\ ReportedAccount(p.username).daily_growth = p.follower_change
               /\ ReportedAccount(p.username).weekly_growth = p.follower_change

\* The history points of a profile as the claim speaks of them: the index of the
\* point that is last in ascending timestamp order (of equal timestamps, the one
\* that comes later in the input), and the first one at or after a cutoff.
StampOf(history, i) == Get(history[i], "timestamp", EmptyTimestamp)

ComesLast(history, among, i) ==
    /\ i \in among
    /\ \A j \in among :
        \/ StampOf(history, j) < StampOf(history, i)
        \/ (StampOf(history, j) = StampOf(history, i) /\ j <= i)

ComesFirst(history, among, i) ==
    /\ i \in among
    /\ \A j \in among :
        \/ StampOf(history, i) < StampOf(history, j)
        \/ (StampOf(history, i) = StampOf(history, j) /\ i <= j)

InWindow(history, cutoff) == {i \in DOMAIN history : StampOf(history, i) >= cutoff}

HistoryDerived(p) == UsesHistory(p) /\ ~UsesFollowerChange(p)

\* C11: when growth is derived from a history of at least 2 points, daily_growth
\* is the count of the last point in ascending timestamp order minus the count
\* of the second-to-last, and weekly_growth (monthly_growth) is the current
\* follower count minus the count of the earliest point at or after now - 7 days
\* (now - 30 days).
C11_HistoryGrowthFromSortedPoints ==
    (GrowthDone /\ GrowthOk) =>
        \A p \in GrowthProfileSet :
            (HistoryDerived(p) /\ \A i \in DOMAIN p.history : "followers" \in DOMAIN p.history[i])
            => LET h == p.history
                   a == ReportedAccount(p.username)
               IN  /\ \A i, j \in DOMAIN h :
                        (ComesLast(h, DOMAIN h, i) /\ ComesLast(h, DOMAIN h \ {i}, j))
                        => a.daily_growth = h[i].followers - h[j].followers
                   /\ \A i \in DOMAIN h :
                        ComesFirst(h, InWindow(h, growth_now - 7), i)
                        => a.weekly_growth = p.followers - h[i].followers
                   /\ \A i \in DOMAIN h :
                        ComesFirst(h, InWindow(h, growth_now - 30), i)
                        => a.monthly_growth = p.followers - h[i].followers

\* A history given newest point first, one point inside the 7-day window and one
\* only inside the 30-day window, with three different growth figures.
C11_Witness ==
    /\ GrowthDone /\ GrowthOk
    /\ \E p \in GrowthProfileSet :
        /\ HistoryDerived(p)
        /\ \A i \in DOMAIN p.history : "followers" \in DOMAIN p.history[i]
        /\ Len(p.history) >= 2
        /\ StampOf(p.history, 1) > StampOf(p.history, 2)
        /\ Cardinality(InWindow(p.history, growth_now - 7)) = 1
        /\ Cardinality(InWindow(p.history, growth_now - 30)) = 2
        /\ ReportedAccount(p.username).daily_growth > 0
        /\ ReportedAccount(p.username).weekly_growth
                # ReportedAccount(p.username).monthly_growth

\* C12: the aggregate satisfies total_followers = sum of followers and
\* total_weekly_growth = sum of weekly_growth over the returned accounts, and
\* avg_growth_rate = (sum weekly / (sum followers - sum weekly)) * (100 / 7) when
\* sum followers - sum weekly > 0 and sum weekly # 0, otherwise 0.
C12_AggregateFromTotals ==
    (GrowthDone /\ GrowthOk) =>
        LET returned == growth_response.accounts
            sum_followers == SumOf(returned, "followers")
            sum_weekly == SumOf(returned, "weekly_growth")
            avg == growth_response.avg_growth_rate
        IN  /\ growth_response.total_accounts = Len(returned)
            /\ growth_response.total_followers = sum_followers
            /\ growth_response.total_weekly_growth = sum_weekly
            /\ avg.den > 0
            /\ IF sum_followers - sum_weekly > 0 /\ sum_weekly # 0
               THEN avg.num * ((sum_followers - sum_weekly) * 7)
                        = (sum_weekly * 100) * avg.den
               ELSE avg.num = 0

\* Two accounts with growth of their own, whose totals give a rate that is
\* neither account's.
C12_Witness ==
    /\ GrowthDone /\ GrowthOk
    /\ Len(growth_response.accounts) = 2
    /\ \A i \in 1..2 : growth_response.accounts[i].weekly_growth # 0
    /\ growth_response.total_followers - growth_response.total_weekly_growth > 0
    /\ growth_response.avg_growth_rate.num # 0
    /\ \A i \in 1..2 :
        ~RatEq(growth_response.accounts[i].growth_rate,
               growth_response.avg_growth_rate)

(***************************************************************************)
(* Properties of api_trend_analysis, checked under SpecTrend.              *)
(***************************************************************************)
TrendDone == trend_pc = "done"
TrendInput == get_account_data(trend_profiles)

\* The dates that have a trend point: a history point of some profile, inside
\* the 30-day window, with a follower count above 0.
TrendPointDates ==
    UNION {
        LET history == Get(TrendInput[i], "history", <<>>)
        IN  {history[j].timestamp \div 2 :
                j \in {j \in DOMAIN history :
                        /\ "timestamp" \in DOMAIN history[j]
                        /\ history[j].timestamp >= trend_now - 60
                        /\ "followers" \in DOMAIN history[j]
                        /\ history[j].followers > 0}}
        : i \in DOMAIN TrendInput}

TrendPoints == Cardinality(TrendPointDates)

\* C14: trend_direction is 'stable' whenever fewer than 7 trend points exist,
\* whatever the magnitude of any point.
C14_FewPointsStable ==
    (TrendDone /\ TrendPoints < 7) =>
        /\ trend_response.status = 200
        /\ trend_response.data_points = TrendPoints
        /\ trend_response.trend_direction = "stable"

\* Six trend points, the last of them fifty times the first.
C14_Witness ==
    /\ TrendDone /\ TrendPoints = 6
    /\ Len(trend_response.trend_data) = 6
    /\ trend_response.trend_data[6].total_followers
            > 50 * trend_response.trend_data[1].total_followers

\* The sums of the 7 most recent daily averages and of the 7 before them.
RecentSum ==
    AverageSum(SubSeq(trend_response.trend_data, TrendPoints - 6, TrendPoints))
PrecedingSum ==
    AverageSum(SubSeq(trend_response.trend_data, TrendPoints - 13, TrendPoints - 7))

\* C15: with at least 14 trend points the direction is 'increasing' iff the mean
\* of the 7 most recent daily averages exceeds 1.05 times the mean of the
\* preceding 7, 'decreasing' iff it is below 0.95 times that mean, and 'stable'
\* otherwise; with 7 to 13 trend points the direction is 'stable'.
C15_DirectionByWeeklyMeans ==
    TrendDone =>
        LET direction == trend_response.trend_direction
        IN  /\ TrendPoints >= 14 =>
                /\ Len(trend_response.trend_data) = TrendPoints
                /\ direction = "increasing"
                    <=> RecentSum.num * PrecedingSum.den * 100
                            > PrecedingSum.num * RecentSum.den * 105
                /\ direction = "decreasing"
                    <=> RecentSum.num * PrecedingSum.den * 100
                            < PrecedingSum.num * RecentSum.den * 95
                /\ direction \in {"increasing", "decreasing", "stable"}
            /\ (TrendPoints >= 7 /\ TrendPoints <= 13) => direction = "stable"

\* Fourteen trend points or more, the recent mean exactly 1.05 times the
\* preceding one: not above the threshold, so 'stable'.
C15_Witness ==
    /\ TrendDone /\ TrendPoints >= 14
    /\ RecentSum.num * PrecedingSum.den * 100
            = PrecedingSum.num * RecentSum.den * 105
    /\ trend_response.trend_direction = "stable"

\* Equality of usernames without regard to letter case, on the names of the model.
SameName(u, v) ==
    \/ u = v
    \/ {u, v} = {"a", "A"}
    \/ {u, v} = {"b", "B"}
    \/ {u, v} = {"@a", "@A"}

(***************************************************************************)
(* Properties of the AccountManager, checked under SpecRegistry.           *)
(***************************************************************************)
RegCalled == reg_call # NoCall
RegSucceeded(op) == RegCalled /\ reg_call.op = op /\ reg_call.ok

\* C16: after any sequence of submit_account, approve_account, reject_account
\* and remove_account calls from empty lists, no username occurs more than once,
\* compared case-insensitively, in the tracked list and the pending list taken
\* together; a submitted name is stored without its leading '@'.
C16_UsernamesUnique ==
    LET all == accounts \o pending
    IN  /\ \A i, j \in DOMAIN all :
            i # j => ~SameName(all[i].username, all[j].username)
        /\ (RegSucceeded("submit") /\ reg_call.username \in {"@a", "@A"})
            => pending[Len(pending)].username \in {"a", "A"}

\* "@A" is refused because "a" is tracked, while other names are pending.
C16_Witness ==
    /\ RegCalled /\ reg_call.op = "submit" /\ ~reg_call.ok
    /\ reg_call.username = "@A"
    /\ \E i \in DOMAIN accounts : accounts[i].username = "a"
    /\ pending # <<>>

\* A list without its i-th entry.
Without(entries, i) ==
    [k \in 1..(Len(entries) - 1) |-> IF k < i THEN entries[k] ELSE entries[k + 1]]

\* The entries of a list that carry the name u, case-insensitively.
Named(entries, u) == {i \in DOMAIN entries : SameName(entries[i].username, u)}

\* C17: each successful operation changes exactly one entry: approve_account(u)
\* removes u's entry from pending and appends one entry for u to tracked,
\* reject_account(u) removes only u's entry from pending, remove_account(u)
\* removes only u's entry from tracked; every other entry of both lists, and the
\* list not named, keeps its place and its contents.
C17_OneEntryChanged ==
    /\ RegSucceeded("approve") =>
        \E i \in Named(reg_call.pending_before, reg_call.username) :
            /\ pending = Without(reg_call.pending_before, i)
            /\ Len(accounts) = Len(reg_call.tracked_before) + 1
            /\ SubSeq(accounts, 1, Len(reg_call.tracked_before))
                    = reg_call.tracked_before
            /\ accounts[Len(accounts)].username
                    = reg_call.pending_before[i].username
    /\ RegSucceeded("reject") =>
        \E i \in Named(reg_call.pending_before, reg_call.username) :
            /\ pending = Without(reg_call.pending_before, i)
            /\ accounts = reg_call.tracked_before
    /\ RegSucceeded("remove") =>
        \E i \in Named(reg_call.tracked_before, reg_call.username) :
            /\ accounts = Without(reg_call.tracked_before, i)
            /\ pending = reg_call.pending_before

\* The second of three pending accounts is approved, under a name that differs
\* in case from the stored one.
C17_Witness ==
    /\ RegSucceeded("approve")
    /\ Len(reg_call.pending_before) = 3
    /\ SameName(reg_call.pending_before[2].username, reg_call.username)
    /\ reg_call.pending_before[2].username # reg_call.username
    /\ Len(pending) = 2

(***************************************************************************)
(* Properties of repeated requests, checked under SpecRepeat.              *)
(***************************************************************************)
\* The last growth request had the inputs of the remembered earlier one.
GrowthRepeated ==
    /\ growth_pc = "done"
    /\ growth_call # NoCall
    /\ growth_call.answer = scraper_profiles
    /\ growth_call.at = growth_now

\* The last call of the resolver had the inputs of the remembered earlier one:
\* the scraper's answer, the two snapshot files and the time.
LbRepeated ==
    /\ LbCalled
    /\ lb_seen # NoCall
    /\ lb_seen.input = lb_call.input
    /\ lb_seen.had_cache = lb_call.had_cache
    /\ lb_seen.had_latest = lb_call.had_latest
    /\ lb_seen.at = lb_call.at

StatsCalled == stats_call # NoCall
CacheBefore == stats_call.before
HadCacheEntry ==
    "scrape_stats" \in DOMAIN CacheBefore /\ "timestamp" \in DOMAIN CacheBefore
CacheAgeAtCall == stats_call.at - CacheBefore.timestamp

\* C4: when the remote fetch fails (network error or non-200) and an in-memory
\* cache entry from an earlier resolution exists, even an expired one, the call
\* returns that cached value and does not fall through to the local file or to
\* the zeroed result.
C4_StaleCacheServedOnFailure ==
    (/\ StatsCalled
     /\ stats_call.requested
     /\ stats_call.answer \in {"status", "error"}
     /\ "scrape_stats" \in DOMAIN CacheBefore)
    => /\ stats_call.ret = CacheBefore.scrape_stats
       /\ stats_call.tier \notin {"file", "empty"}

\* C5: the call returns the cached value without a remote request if and only if
\* a cached value and its timestamp both exist and the cache age is strictly
\* below 300 s; from an age of 300 s on the entry is stale and the remote fetch
\* is the next step.
C5_FreshCacheIffNoRequest ==
    StatsCalled =>
        /\ (~stats_call.requested) <=> (HadCacheEntry /\ CacheAgeAtCall < 300)
        /\ (~stats_call.requested)
            => /\ stats_call.ret = CacheBefore.scrape_stats
               /\ stats_call.tier = "cache"
        /\ (HadCacheEntry /\ CacheAgeAtCall >= 300)
            => /\ stats_call.requested
               /\ stats_call.answer = "ok"
                    => (stats_call.tier = "remote" /\ STATS_CACHE.timestamp >= stats_call.at)

\* The scenario of the specification: a call that finds an entry aged 301 s.
C5_Witness ==
    /\ StatsCalled /\ HadCacheEntry
    /\ CacheAgeAtCall = 301
    /\ stats_call.requested
    /\ stats_call.tier = "remote"

(***************************************************************************)
(* Properties of the profile resolver and of the leaderboard.              *)
(***************************************************************************)
LbAnswered == lb_response # NoResponse
SampleNames == {"alexisivyedge", "jodyvollmodel", "aikakittie"}
UsernamesOf(profiles) == {profiles[i].username : i \in DOMAIN profiles}
WithoutRank(item) == [f \in DOMAIN item \ {"rank"} |-> item[f]]

\* C1: the leaderboard holds exactly the profiles of the resolver's list whose
\* follower_count is present (not None), in non-increasing order of
\* follower_count, equal counts in their input order, with rank = position.
C1_LeaderboardFilteredSortedRanked ==
    LbAnswered =>
        LET kept == SelectSeq(lb_call.ret,
                        LAMBDA p : "follower_count" \in DOMAIN p
                                   /\ p.follower_count # None)
            lb == lb_response.leaderboard
            plain == [k \in DOMAIN lb |-> WithoutRank(lb[k])]
        IN  /\ lb_response.status = 200
            /\ Len(lb) = Len(kept)
            /\ lb_response.total_accounts = Len(kept)
            /\ \A k \in DOMAIN lb : lb[k].rank = k
            /\ \A k \in DOMAIN lb :
                  k < Len(lb) => lb[k].follower_count >= lb[k + 1].follower_count
            /\ \A c \in {kept[i].follower_count : i \in DOMAIN kept} :
                  SelectSeq(plain, LAMBDA p : p.follower_count = c)
                    = SelectSeq(kept, LAMBDA p : p.follower_count = c)

\* A list with a profile that has no count, two different profiles with equal
\* counts, and a third count.
C1_Witness ==
    /\ LbAnswered
    /\ Len(lb_response.leaderboard) >= 3
    /\ \E i \in DOMAIN lb_call.ret : ~HasCount(lb_call.ret[i])
    /\ \E i, j \in DOMAIN lb_call.ret :
        /\ i < j
        /\ HasCount(lb_call.ret[i])
        /\ lb_call.ret[i].follower_count = lb_call.ret[j].follower_count
        /\ lb_call.ret[i].username # lb_call.ret[j].username

\* C2: when the remote fetch fails (network error, error status, or a payload
\* without profiles), no earlier resolution is in memory and no durable file
\* exists, the resolver returns the static sample set, which is not empty, and
\* the request is answered normally.
C2_SampleSetWhenNothingElse ==
    (/\ LbAnswered
     /\ ~lb_call.fetched
     /\ lb_call.prior_at = None
     /\ lb_call.had_cache = MissingFile
     /\ lb_call.had_latest = MissingFile)
    => /\ Len(lb_call.ret) >= 1
       /\ UsernamesOf(lb_call.ret) = SampleNames
       /\ \A i \in DOMAIN lb_call.ret : lb_call.ret[i].follower_count > 0
       /\ lb_response.status = 200

\* The scenario of the specification: an error status in a fresh installation.
C2_Witness ==
    /\ LbAnswered
    /\ lb_call.answer = "status"
    /\ lb_call.prior_at = None
    /\ lb_call.had_cache = MissingFile /\ lb_call.had_latest = MissingFile
    /\ Len(lb_call.ret) = 3

\* C3: the sample set is returned only when every other tier is empty: when the
\* fetch fails and an earlier successful resolution is available (in memory, in
\* previous_profiles_cache.json or in latest_data.json), that earlier data is
\* returned and the sample set is not.
C3_SampleOnlyWhenNoEarlierData ==
    (/\ LbCalled
     /\ ~lb_call.fetched
     /\ lb_call.prior_at # None
     /\ lb_call.had_cache.state = "ok")
    => /\ UsernamesOf(lb_call.ret) \cap SampleNames = {}
       /\ UsernamesOf(lb_call.ret) = UsernamesOf(lb_call.prior_ret)

\* C6: a request that finds an earlier successful resolution younger than the
\* 300 s expiry returns that result unchanged and sends no request to the
\* scraper service.
C6_FreshResolutionServedFromCache ==
    (/\ LbCalled
     /\ lb_call.prior_at # None
     /\ lb_call.at - lb_call.prior_at < 300)
    => /\ ~lb_call.requested
       /\ lb_call.ret = lb_call.prior_ret

\* The entries of a stored snapshot; none when the file is missing.
StoredIn(file) == IF file.state = "ok" THEN file.data ELSE <<>>

\* C18: usernames are compared case-insensitively: a current profile whose
\* username differs at most in letter case from an entry stored in
\* latest_data.json or in previous_profiles_cache.json is matched to that entry,
\* so its follower_change is the current count minus the stored count.
C18_ChangeMatchedCaseInsensitively ==
    (LbAnswered /\ lb_call.fetched) =>
        \A i \in DOMAIN lb_call.ret :
            LET profile == lb_call.ret[i]
            IN  (HasCount(profile) /\ "synthetic" \notin DOMAIN profile) =>
                    \A file \in {lb_call.had_latest, lb_call.had_cache} :
                        \A j \in DOMAIN StoredIn(file) :
                            LET stored == StoredIn(file)[j]
                            IN  (/\ SameName(profile.username, stored.username)
                                 /\ HasCount(stored))
                                => profile.follower_change
                                     = profile.follower_count - stored.follower_count

BackupsMade == lb_call.made
MostRecent(names, n) == {b \in names : Cardinality({c \in names : c > b}) < n}

NamesStoredIn(file) ==
    {Get(StoredIn(file)[j], "username", "None") : j \in DOMAIN StoredIn(file)}

\* A profile of the scraper's answer that is tracked and has an entry neither
\* in latest_data.json nor in the previous-snapshot cache.
FirstSeen(profile) ==
    /\ \E k \in DOMAIN accounts :
            SameName(accounts[k].username, Get(profile, "username", ""))
    /\ profile.username \notin NamesStoredIn(lb_call.had_latest)
    /\ profile.username \notin NamesStoredIn(lb_call.had_cache)

\* A profile with neither follower_change nor history.
NoHistory(profile) ==
    /\ "follower_change" \notin DOMAIN profile
    /\ Get(profile, "history", <<>>) = <<>>

GrowthInput == get_account_data(scraper_profiles)

\* C21: missing history is not an error and yields zero-valued growth: a
\* profile with no entry in latest_data.json and none in the previous-snapshot
\* cache is returned by get_profiles_from_scraper with follower_change = 0, and
\* a profile with neither follower_change nor history is reported by
\* api_growth_stats with daily_growth, weekly_growth, monthly_growth and
\* growth_rate all 0; a request answers 500 only when some other profile, one
\* that has a history, fails.
C21_MissingHistoryYieldsZero ==
    /\ (LbCalled /\ lb_call.fetched) =>
        \A i \in DOMAIN lb_call.input.body.profiles :
            LET profile == lb_call.input.body.profiles[i]
            IN  FirstSeen(profile) =>
                    \E k \in DOMAIN lb_call.ret :
                        /\ lb_call.ret[k].username = profile.username
                        /\ Get(lb_call.ret[k], "follower_count", None)
                             = Get(profile, "follower_count", None)
                        /\ "follower_change" \in DOMAIN lb_call.ret[k]
                        /\ lb_call.ret[k].follower_change = 0
    /\ GrowthDone =>
        /\ GrowthOk =>
            \A i \in DOMAIN GrowthInput :
                NoHistory(GrowthInput[i]) =>
                    \E k \in DOMAIN growth_response.accounts :
                        LET account == growth_response.accounts[k]
                        IN  /\ account.username = GrowthInput[i].username
                            /\ account.followers = GrowthInput[i].followers
                            /\ account.daily_growth = 0
                            /\ account.weekly_growth = 0
                            /\ account.monthly_growth = 0
                            /\ RatEq(account.growth_rate, RatZero)
        /\ ~GrowthOk =>
            \E i \in DOMAIN GrowthInput : ~NoHistory(GrowthInput[i])

\* Both handlers met the case: the leaderboard returned, with a count and
\* follower_change 0, a tracked profile that no snapshot knows although both
\* snapshots exist, and the growth report lists a profile without history next
\* to one whose growth is not 0.
C21_Witness ==
    /\ LbCalled /\ lb_call.fetched
    /\ lb_call.had_latest.state = "ok" /\ lb_call.had_cache.state = "ok"
    /\ \E i \in DOMAIN lb_call.input.body.profiles :
        LET profile == lb_call.input.body.profiles[i]
        IN  /\ FirstSeen(profile)
            /\ HasCount(profile)
            /\ \E k \in DOMAIN lb_call.ret :
                /\ lb_call.ret[k].username = profile.username
                /\ lb_call.ret[k].follower_change = 0
    /\ GrowthDone /\ GrowthOk
    /\ \E i \in DOMAIN GrowthInput :
        /\ NoHistory(GrowthInput[i])
        /\ GrowthInput[i].followers = 2
    /\ \E k \in DOMAIN growth_response.accounts :
        growth_response.accounts[k].weekly_growth # 0

(***************************************************************************)
(* AccountManager.approve_account, checked under SpecRegistry.             *)
(***************************************************************************)
\* C27: approve_account is all-or-nothing: whenever it returns (False, message),
\* because the username is not pending or because a save failed, the pending
\* list and the tracked list are exactly as they were before the call, so a
\* submitted account is never lost from both lists.
C27_ApproveAllOrNothing ==
    (RegCalled /\ reg_call.op = "approve" /\ ~reg_call.ok) =>
        /\ pending = reg_call.pending_before
        /\ accounts = reg_call.tracked_before

(***************************************************************************)
(* The tracked accounts and the resolver's list, checked under             *)
(* SpecLeaderboard.                                                        *)
(***************************************************************************)
LowerNames(entries) ==
    {Lower(Get(entries[i], "username", "")) : i \in DOMAIN entries}

IsSynthetic(profile) == "synthetic" \in DOMAIN profile

\* C29: whenever the remote fetch returns a non-empty profile list, the
\* lower-cased usernames of the list get_profiles_from_scraper returns are
\* exactly the lower-cased usernames of the tracked accounts: the scraper's
\* profiles of untracked usernames are dropped, those of tracked usernames are
\* kept, and each tracked account that the scraper's data lacks is added once,
\* as a synthetic profile with follower_count 1000 and follower_change 0.
C29_ReturnedNamesAreTrackedNames ==
    (LbCalled /\ FetchSucceeds(lb_call.input)) =>
        LET input == lb_call.input.body.profiles
            ret == lb_call.ret
            tracked == LowerNames(accounts)
            scraped == LowerNames(input)
            kept == {i \in DOMAIN input : Lower(input[i].username) \in tracked}
            real == {k \in DOMAIN ret : ~IsSynthetic(ret[k])}
        IN  /\ LowerNames(ret) = tracked
            /\ Cardinality(real) = Cardinality(kept)
            /\ \A k \in real : Lower(ret[k].username) \in scraped
            /\ \A k \in DOMAIN ret \ real :
                /\ Lower(ret[k].username) \in tracked \ scraped
                /\ ret[k].follower_count = 1000
                /\ ret[k].follower_change = 0
            /\ \A u \in tracked \ scraped :
                Cardinality({k \in DOMAIN ret : Lower(ret[k].username) = u}) = 1

\* The scraper sent a profile of an untracked username and one of a tracked
\* username in another letter case, and lacks a tracked account: the list has
\* the tracked profile and one synthetic profile.
C29_Witness ==
    /\ LbCalled /\ FetchSucceeds(lb_call.input)
    /\ LowerNames(accounts) = {"a", "c"}
    /\ \E i \in DOMAIN lb_call.input.body.profiles :
        lb_call.input.body.profiles[i].username = "b"
    /\ Len(lb_call.ret) = 2
    /\ \E k \in DOMAIN lb_call.ret :
        /\ IsSynthetic(lb_call.ret[k])
        /\ lb_call.ret[k].username = "c"
    /\ \E k \in DOMAIN lb_call.ret :
        ~IsSynthetic(lb_call.ret[k]) /\ lb_call.ret[k].username = "A"

(***************************************************************************)
(* Successive leaderboard responses, checked under SpecSuccessive.         *)
(***************************************************************************)
\* The follower count the scraper reported for each username.
UpstreamCounts(answer) ==
    {<<answer.body.profiles[i].username,
       Get(answer.body.profiles[i], "follower_count", None)>> :
        i \in DOMAIN answer.body.profiles}

\* The last two requests were both served through the remote fetch.
BothFetched ==
    /\ LbAnswered /\ lb_call.fetched
    /\ lb_seen.at # None /\ lb_seen.fetched

C25_RemovedNeverListed ==
    (RegCalled /\ reg_call.op = "remove" /\ reg_call.ok /\ LbAnswered) =>
        \A k \in DOMAIN lb_response.leaderboard :
            ~SameName(lb_response.leaderboard[k].username, reg_call.username)

(***************************************************************************)
(* scrape_accounts, checked under SpecScrape.                              *)
(***************************************************************************)
ScrapeTries == scrape_run.tries
ScrapeCalls == SelectSeq(ScrapeTries, LAMBDA e : e.ev = "call")
ScrapeFailed(e) == e.ev = "call" /\ e.outcome # "count"

\* What has happened for the current account follows the retry schedule.
RetrySchedule ==
    /\ Len(ScrapeCalls) <= 3
    /\ \A k \in DOMAIN ScrapeCalls :
        /\ ScrapeCalls[k].attempt = k
        /\ k < Len(ScrapeCalls) => ScrapeFailed(ScrapeCalls[k])
    /\ \A j \in DOMAIN ScrapeTries :
        LET e == ScrapeTries[j]
        IN  /\ (ScrapeFailed(e) /\ e.attempt < 3 /\ j < Len(ScrapeTries)) =>
                /\ ScrapeTries[j + 1].ev = "sleep"
                /\ ScrapeTries[j + 1].kind = "retry"
                /\ ScrapeTries[j + 1].seconds = 2 * e.attempt
            /\ (e.ev = "sleep" /\ e.kind = "retry") =>
                /\ j > 1
                /\ ScrapeFailed(ScrapeTries[j - 1])
                /\ ScrapeTries[j - 1].attempt \in {1, 2}
                /\ e.seconds = 2 * ScrapeTries[j - 1].attempt
            /\ (e.ev = "call" /\ (e.attempt = 3 \/ e.outcome = "count")
                    /\ j < Len(ScrapeTries)) =>
                /\ j + 1 = Len(ScrapeTries)
                /\ ScrapeTries[j + 1].ev = "sleep"
                /\ ScrapeTries[j + 1].kind = "next"
                /\ scrape_run.i < Len(scrape_run.todo)
            /\ (e.ev = "sleep" /\ j < Len(ScrapeTries)) =>
                ScrapeTries[j + 1].ev = "call"
    /\ scrape_run.pc = "attempt" =>
        (ScrapeTries = <<>> \/ ScrapeTries[Len(ScrapeTries)].ev = "sleep")

\* At most one result per account, in the order of the request.
ResultsInOrder ==
    LET results == scrape_run.results
    IN  /\ \A k \in DOMAIN results :
            /\ results[k].idx \in 1..Len(scrape_run.accounts)
            /\ results[k].username = scrape_run.accounts[results[k].idx]
        /\ \A k, l \in DOMAIN results :
            k < l => results[k].idx < results[l].idx
        /\ (scrape_run.pc = "done" /\ scrape_run.key = "ok") =>
            scrape_run.ret = [is |-> "list", list |-> results]

ScrapeSafe == RetrySchedule /\ ResultsInOrder

\* C24: for each account scrape_accounts calls scrape_profile at most 3 times
\* and stops at the first attempt that returns a follower count; after a failed
\* attempt k (k = 1, 2), whether it returned no count or raised, it waits 2k
\* seconds before retrying, and after the third attempt it makes no retry wait
\* (only the delay that precedes every next account); the run terminates for
\* any finite account list and returns at most one result per account, in
\* request order.
C24_ThreeAttemptsLinearBackoff ==
    /\ []ScrapeSafe
    /\ <>(scrape_run.pc = "done")

\* The second account of three: no count, then an exception, then a count at
\* the third attempt, with waits of 2 and 4 seconds; the first account gave
\* nothing in three attempts.
C24_Witness ==
    /\ scrape_run.pc = "account_done"
    /\ scrape_run.i = 2 /\ Len(scrape_run.todo) = 3
    /\ scrape_run.results = <<[username |-> "b", follower_count |-> 1, idx |-> 2]>>
    /\ ScrapeTries =
        <<[ev |-> "call", attempt |-> 1, outcome |-> "none"],
          [ev |-> "sleep", kind |-> "retry", seconds |-> 2],
          [ev |-> "call", attempt |-> 2, outcome |-> "raise"],
          [ev |-> "sleep", kind |-> "retry", seconds |-> 4],
          [ev |-> "call", attempt |-> 3, outcome |-> "count"]>>

(***************************************************************************)
(* get_scrape_stats under concurrent calls, checked under SpecThreads.     *)
(***************************************************************************)
\* C23: under concurrently executing get_scrape_stats calls the in-memory cache
\* is always swapped as a whole: no call observes the cached value written by
\* one refresh together with the timestamp written by a different refresh.
C23_CacheSwappedWhole ==
    \A t \in Threads :
        (stats_threads[t].pc = "done" /\ stats_threads[t].tier = "cache") =>
            stats_threads[t].seen_data_by = stats_threads[t].seen_ts_by

(***************************************************************************)
(* Concurrent submit_account calls, checked under SpecConcurrentSubmit.    *)
(***************************************************************************)
SubmitsOver == \A c \in Callers : submit_calls[c].pc \in {"idle", "done"}
SubmitSucceeded(c) == submit_calls[c].pc = "done" /\ submit_calls[c].ok

\* C30: when several submit_account calls run concurrently, interleaved at the
\* loads and saves of the files, the pending list afterwards contains exactly
\* one entry for each distinct username whose call returned success: no
\* successful submission is lost by another call's overwrite, and two
\* concurrent submissions of the same username do not both succeed.
C30_ConcurrentSubmitsKept ==
    SubmitsOver =>
        /\ \A c \in Callers :
            SubmitSucceeded(c) =>
                Cardinality({i \in DOMAIN pending :
                    SameName(pending[i].username, submit_calls[c].username)}) = 1
        /\ \A c, d \in Callers :
            (c # d /\ SubmitSucceeded(c) /\ SubmitSucceeded(d)) =>
                ~SameName(submit_calls[c].username, submit_calls[d].username)

(***************************************************************************)
(* The request handlers of app.py, checked under SpecWeb.                  *)
(***************************************************************************)
\* C22: every outbound call to the scraper service is made with a bounded
\* timeout, so every request handler (leaderboard, trends, accounts, submit,
\* approve, remove) eventually returns a response even when the scraper service
\* accepts the connection and never answers.
C22_EveryHandlerReturns ==
    \A r \in WebRequests :
        (web_req[r].pc = "waiting") ~> (web_req[r].pc = "done")

\* C28: the /api/admin/approve response reports success = true exactly when
\* AccountManager.approve_account moved the account into the tracked list: a
\* failure of the forwarding call to the scraper service (error status or
\* connection error) never turns a completed local approval into a
\* success = false or 5xx response.
C28_ApproveReportsLocalResult ==
    \A r \in WebRequests :
        (web_req[r].pc = "done" /\ web_req[r].handler = "approve") =>
            /\ web_req[r].response.success = web_req[r].moved
            /\ web_req[r].moved => web_req[r].response.status = 200

====
